---- MODULE Spec2Model ----
(***************************************************************************)
(* A model of shuldan/migrator: the Migrator engine (migrator.go) applying *)
(* and rolling back Migration values against a transactional store that    *)
(* holds the schema_migrations ledger.                                     *)
(*                                                                         *)
(* Strings the code inspects are sequences of characters: an identifier is *)
(* a sequence of digits compared bytewise (Go's string <), a statement is  *)
(* a sequence of one-character strings (strings.TrimSpace, HasPrefix).     *)
(* The store is transactional: what a transaction executes becomes part of *)
(* the committed store at Commit and is discarded at Rollback.             *)
(***************************************************************************)
EXTENDS Integers, Sequences, FiniteSets, TLC

\* ------------------------------------------------------------- bounds
\* longest candidate list an instance may hold
MaxReg == 3
\* longest argument list of one Register call
MaxArgs == 2
\* Up and Down calls start only while the committed statement log is shorter
MaxSchema == 3
\* largest steps argument of Down (the smallest is -1)
MaxSteps == 4
MaxCalls == 3

\* ------------------------------------------------------------- strings

IsSpace(c) == c \in {" ", "\t", "\n"}

RECURSIVE TrimLeft(_)
TrimLeft(s) ==
  IF s # <<>> /\ IsSpace(Head(s)) THEN TrimLeft(Tail(s)) ELSE s

RECURSIVE TrimRight(_)
TrimRight(s) ==
  IF s # <<>> /\ IsSpace(s[Len(s)]) THEN TrimRight(SubSeq(s, 1, Len(s) - 1)) ELSE s

\* strings.TrimSpace
TrimSpace(s) == TrimRight(TrimLeft(s))

\* strings.HasPrefix
HasPrefix(s, p) == Len(s) >= Len(p) /\ SubSeq(s, 1, Len(p)) = p

CommentMarker == <<"-", "-">>

\* Go's < on strings: bytewise lexicographic, a proper prefix is smaller
StrLess(a, b) ==
  \E k \in 1..Len(b) :
    /\ \A j \in 1..(k - 1) : j <= Len(a) /\ a[j] = b[j]
    /\ (k > Len(a) \/ a[k] < b[k])

\* ------------------------------------------------------------- values

\* Migration values a caller may build; identifiers "1", "10" and "2"
MigA == [id |-> <<1>>, description |-> "a",
         up |-> << <<"A">> >>,
         down |-> << <<"a">> >>]
MigB == [id |-> <<1, 0>>, description |-> "b",
         up |-> << <<" ">>, <<"B">>, <<"-", "-", "B">> >>,
         down |-> << <<" ", "-", "-">>, <<"b">> >>]
MigC == [id |-> <<2>>, description |-> "c",
         up |-> << <<"C">> >>,
         down |-> << <<>>, <<" ", "c">> >>]
Migs == {MigA, MigB, MigC}

\* a row written to the ledger by an earlier tool, not by this engine
LegacyRow == [id |-> <<0>>, description |-> "legacy", batch |-> 0]

Threads == {1, 2}
Instances == {1, 2}
NoThread == 0

\* the error values of errors.go; Cause stands for the store's own error
ErrMigrationFailed == "ErrMigrationFailed"
ErrFailedToCreateSchemaMigrationsTable == "ErrFailedToCreateSchemaMigrationsTable"
ErrFailedToCreateSchemaMigrationsIndex == "ErrFailedToCreateSchemaMigrationsIndex"
ErrFailedToGetAppliedMigrations == "ErrFailedToGetAppliedMigrations"
ErrFailedToBeginTransaction == "ErrFailedToBeginTransaction"
ErrNoMigrationsToRollback == "ErrNoMigrationsToRollback"
ErrFailedToExecuteQuery == "ErrFailedToExecuteQuery"
Cause == "cause"
\* an error is the set of values errors.Is finds in it; nil is the empty set
Nil == {}
Join(a, b) == a \cup b

\* ------------------------------------------------------------- sorting

Range(s) == {s[k] : k \in 1..Len(s)}

Perms(n) == {f \in [1..n -> 1..n] : \A a, b \in 1..n : a # b => f[a] # f[b]}

\* sort.Slice(s, less): some rearrangement of s in which no element is less
\* than one before it; the sort is not stable, so every such rearrangement
\* is a possible outcome. less is the set of pairs <<a, b>> with a less than b
SortSlice(s, less) ==
  {[k \in 1..Len(s) |-> s[f[k]]] :
     f \in {g \in Perms(Len(s)) :
              \A a, b \in 1..Len(s) : a < b => <<s[g[b]], s[g[a]]>> \notin less}}

\* the pairs of elements of s that a comparison orders
Pairs(s) == Range(s) \X Range(s)

\* a comparison by numeric value: shorter digit strings first
LessIDNumeric(a, b) ==
  Len(a.id) < Len(b.id) \/ (Len(a.id) = Len(b.id) /\ StrLess(a.id, b.id))

\* a comparison that sorts the greatest ID first
LessIDDescending(a, b) == StrLess(b.id, a.id)

\* Up's comparison: migrations[i].ID() < migrations[j].ID()
LessID(a, b) == StrLess(a.id, b.id)

\* a comparison that leaves the rows in ascending order
RollbackLessAscending(a, b) ==
  a.batch < b.batch \/ (a.batch = b.batch /\ StrLess(a.id, b.id))

\* a rollback order that ignores the batch
RollbackLessByIDOnly(a, b) == StrLess(b.id, a.id)

\* buildRollbackList's comparison: batch descending, then ID descending
RollbackLess(a, b) ==
  a.batch > b.batch \/ (a.batch = b.batch /\ StrLess(b.id, a.id))

\* an ORDER BY id that ignores the batch
OrderByIDOnly(a, b) == StrLess(a.id, b.id)

\* the store's ORDER BY batch, id
OrderByBatchID(a, b) ==
  a.batch < b.batch \/ (a.batch = b.batch /\ StrLess(a.id, b.id))

\* ------------------------------------------------------------- the store

\* a transaction: what it has inserted, deleted and executed so far
NoTx == [open |-> FALSE, ins |-> <<>>, del |-> {}, stmts |-> <<>>]
OpenTx == [NoTx EXCEPT !.open = TRUE]

\* a DELETE that removes no row
TxDeleteNothing(tx, id) == tx


TxExec(tx, query) == [tx EXCEPT !.stmts = Append(@, query)]
TxInsert(tx, row) == [tx EXCEPT !.ins = Append(@, row)]
TxDelete(tx, id) == [tx EXCEPT !.del = @ \cup {id}]

\* identifiers the transaction sees in schema_migrations (id is the primary key)
\* a transaction that does not see the rows it inserted itself
TxVisibleIDsCommittedOnly(rows, tx) ==
  {r.id : r \in {x \in Range(rows) : x.id \notin tx.del}}

TxVisibleIDs(rows, tx) ==
  {r.id : r \in {x \in Range(rows) : x.id \notin tx.del}} \cup {r.id : r \in Range(tx.ins)}

\* a primary key that does not see the rows of open transactions
InsertRefusedCommittedOnly(id, rows, tx, others) ==
  id \in {r.id : r \in Range(rows)}

\* the INSERT of id cannot succeed: the transaction sees a row with that
\* primary key, or another open transaction has inserted one (the store makes
\* the INSERT wait for that transaction to end, or fails it)
InsertRefused(id, rows, tx, others) ==
  \/ id \in TxVisibleIDs(rows, tx)
  \/ \E o \in others : id \in {r.id : r \in Range(o.ins)}

\* a Commit that loses the last statement the transaction executed
CommitSchemaPartial(log, tx) ==
  log \o SubSeq(tx.stmts, 1, Len(tx.stmts) - 1)

\* a Commit that stamps the rows already present with the batch of the rows
\* it inserts
CommitLedgerRestamps(rows, tx) ==
  LET kept == SelectSeq(rows, LAMBDA r : r.id \notin tx.del)
  IN  [k \in DOMAIN kept |->
         IF tx.ins = <<>> THEN kept[k]
         ELSE [kept[k] EXCEPT !.batch = tx.ins[1].batch]] \o tx.ins

\* tx.Commit(): the transaction's work becomes the committed store
CommitLedger(rows, tx) == SelectSeq(rows, LAMBDA r : r.id \notin tx.del) \o tx.ins
CommitSchema(log, tx) == log \o tx.stmts

\* a Rollback that keeps the transaction's work
RollbackLedgerKeepsWork(rows, tx) == CommitLedger(rows, tx)
RollbackSchemaKeepsWork(log, tx) == CommitSchema(log, tx)

\* tx.Rollback(): the transaction's work is discarded
RollbackLedger(rows, tx) == rows
RollbackSchema(log, tx) == log

\* one store operation as a call records it
Op(k, id, s, ok) == [k |-> k, id |-> id, s |-> s, ok |-> ok]
NoID == <<>>
NoStmt == <<>>

\* ------------------------------------------------------------- migrator.go

\* createMigrationTable and the SELECT of getAppliedMigrations, for each way
\* the store can answer: the table statement fails, the index statement
\* fails, the query (or a row scan) fails, or all succeed
Outcomes == {"tableFails", "indexFails", "queryFails", "ok"}

\* a bootstrap that reports both failures under the table's kind
createMigrationTableErrOneKind(outcome) ==
  IF outcome \in {"tableFails", "indexFails"}
  THEN Join({ErrFailedToCreateSchemaMigrationsTable}, {Cause})
  ELSE Nil

createMigrationTableErr(outcome) ==
  IF outcome = "tableFails" THEN Join({ErrFailedToCreateSchemaMigrationsTable}, {Cause})
  ELSE IF outcome = "indexFails" THEN Join({ErrFailedToCreateSchemaMigrationsIndex}, {Cause})
  ELSE Nil

\* a read that takes a failed query for an empty ledger
getAppliedMigrationsDropsQueryError(outcome, table, index, rows) ==
  [err   |-> createMigrationTableErr(outcome),
   rows  |-> IF outcome = "ok"
             THEN CHOOSE s \in SortSlice(rows, {p \in Pairs(rows) : OrderByBatchID(p[1], p[2])}) : TRUE
             ELSE <<>>,
   table |-> table \/ outcome # "tableFails",
   index |-> index \/ outcome \notin {"tableFails", "indexFails"},
   ops   |-> IF outcome = "tableFails"
             THEN <<Op("createTable", NoID, NoStmt, FALSE)>>
             ELSE IF outcome = "indexFails"
             THEN <<Op("createTable", NoID, NoStmt, TRUE),
                    Op("createIndex", NoID, NoStmt, FALSE)>>
             ELSE <<Op("createTable", NoID, NoStmt, TRUE),
                    Op("createIndex", NoID, NoStmt, TRUE),
                    Op("select", NoID, NoStmt, outcome = "ok")>>]

getAppliedMigrations(outcome, table, index, rows) ==
  [err   |-> IF outcome = "queryFails" THEN {Cause} ELSE createMigrationTableErr(outcome),
   rows  |-> IF outcome = "ok"
             THEN CHOOSE s \in SortSlice(rows, {p \in Pairs(rows) : OrderByBatchID(p[1], p[2])}) : TRUE
             ELSE <<>>,
   table |-> table \/ outcome # "tableFails",
   index |-> index \/ outcome \notin {"tableFails", "indexFails"},
   ops   |-> IF outcome = "tableFails"
             THEN <<Op("createTable", NoID, NoStmt, FALSE)>>
             ELSE IF outcome = "indexFails"
             THEN <<Op("createTable", NoID, NoStmt, TRUE),
                    Op("createIndex", NoID, NoStmt, FALSE)>>
             ELSE <<Op("createTable", NoID, NoStmt, TRUE),
                    Op("createIndex", NoID, NoStmt, TRUE),
                    Op("select", NoID, NoStmt, outcome = "ok")>>]

\* an Up that also drops the candidates ordered before an applied identifier
UnappliedAfterLast(sorted, applied) ==
  SelectSeq(sorted, LAMBDA m :
    /\ m.id \notin {a.id : a \in Range(applied)}
    /\ \A a \in Range(applied) : ~StrLess(m.id, a.id))

\* an Up that does not drop the applied candidates
UnappliedNoFilter(sorted, applied) == sorted

\* Up, lines 52-68: the sorted candidates that have no ledger row
Unapplied(sorted, applied) ==
  SelectSeq(sorted, LAMBDA m : m.id \notin {a.id : a \in Range(applied)})

RECURSIVE MaxBatch(_, _)
MaxBatch(applied, maxBatch) ==
  IF applied = <<>> THEN maxBatch
  ELSE MaxBatch(Tail(applied),
                IF Head(applied).batch > maxBatch THEN Head(applied).batch ELSE maxBatch)

\* a batch number that leaves one number unused
getNextBatchNumberSkips(applied) == MaxBatch(applied, 0) + 2

\* a batch number that counts the rows instead of reading their batches
getNextBatchNumberByCount(applied) == Len(applied) + 1

\* a batch number that starts again at 1 on every call
getNextBatchNumberRestarts(applied) == 1

getNextBatchNumber(applied) == MaxBatch(applied, 0) + 1

\* the Migration the map holds for each registered ID: a later one replaces
\* an earlier one with the same ID
RECURSIVE buildMigrationMap(_)
buildMigrationMap(ms) ==
  IF ms = <<>> THEN <<>>
  ELSE LET rest == buildMigrationMap(SubSeq(ms, 1, Len(ms) - 1))
           last == ms[Len(ms)]
       IN  [id \in DOMAIN rest \cup {last.id} |->
              IF id = last.id THEN last ELSE rest[id]]

\* a Down that never refuses
NothingToRollbackNever(applied) == Len(applied) < 0

\* Down, line 89
NothingToRollback(applied) == Len(applied) = 0

\* a clamp that takes steps = 0 as "none" instead of "all"
buildRollbackListZeroIsNone(applied, steps) ==
  LET sorted == CHOOSE s \in SortSlice(applied, {p \in Pairs(applied) : RollbackLess(p[1], p[2])}) : TRUE
      n == IF steps < 0 \/ steps > Len(applied) THEN Len(applied) ELSE steps
  IN  SubSeq(sorted, 1, n)

\* ledger IDs are unique, so the descending order is unique
buildRollbackList(applied, steps) ==
  LET sorted == CHOOSE s \in SortSlice(applied, {p \in Pairs(applied) : RollbackLess(p[1], p[2])}) : TRUE
      n == IF steps <= 0 \/ steps > Len(applied) THEN Len(applied) ELSE steps
  IN  SubSeq(sorted, 1, n)

\* a forward filter that also skips comments, as the reverse filter does
SkipUpComments(query) ==
  TrimSpace(query) = <<>> \/ HasPrefix(TrimSpace(query), CommentMarker)

\* executeMigrationUp skips a query that is empty after TrimSpace
SkipUp(query) == TrimSpace(query) = <<>>

\* a rollback that skips only the empty queries
SkipDownBlankOnly(query) == TrimSpace(query) = <<>>


\* rollbackSingleMigration skips a query that, trimmed, is empty or a comment
SkipDown(query) ==
  LET trimmedQuery == TrimSpace(query)
  IN  trimmedQuery = <<>> \/ HasPrefix(trimmedQuery, CommentMarker)

\* a batch number that grows with each migration of the call
BatchForPerMigration(batch, i) == batch + i - 1

\* the batch executeMigrationBatch passes for the i-th migration of the batch
BatchFor(batch, i) == batch

\* a row that records the ID in place of the description
LedgerRowNoDescription(migration, batch) ==
  [id |-> migration.id, description |-> "", batch |-> batch]

\* the row executeMigrationUp inserts
LedgerRow(migration, batch) ==
  [id |-> migration.id, description |-> migration.description, batch |-> batch]

\* ------------------------------------------------------------- builder

\* strings.Join
RECURSIVE StringsJoin(_, _)
StringsJoin(elems, sep) ==
  IF elems = <<>> THEN <<>>
  ELSE IF Len(elems) = 1 THEN elems[1]
  ELSE elems[1] \o sep \o StringsJoin(Tail(elems), sep)

\* the length of the run of non-space characters s starts with
RECURSIVE WordLen(_)
WordLen(s) ==
  IF s = <<>> \/ IsSpace(Head(s)) THEN 0 ELSE 1 + WordLen(Tail(s))

\* strings.Fields: the words of s, split around runs of white space
RECURSIVE Fields(_)
Fields(s) ==
  IF s = <<>> THEN <<>>
  ELSE IF IsSpace(Head(s)) THEN Fields(Tail(s))
  ELSE <<SubSeq(s, 1, WordLen(s))>> \o Fields(SubSeq(s, WordLen(s) + 1, Len(s)))

\* CreateMigration: a baseMigration with no queries
CreateMigration(id, description) ==
  [id |-> id, description |-> description, upQueries |-> <<>>, downQueries |-> <<>>]

\* baseMigration.AddUp: append
AddUp(m, query) == [m EXCEPT !.upQueries = Append(@, query)]

\* an AddDown that puts the query at the end
AddDownAppends(m, query) == [m EXCEPT !.downQueries = Append(@, query)]


\* baseMigration.AddDown: put in front
AddDown(m, query) == [m EXCEPT !.downQueries = <<query>> \o @]

\* what the Migration interface shows of a baseMigration
AsMigration(m) ==
  [id |-> m.id, description |-> m.description, up |-> m.upQueries, down |-> m.downQueries]

\* the forward and reverse statements of the builder operations (fmt.Sprintf)
CreateTableUp(tableName, columns) ==
  <<"CREATE TABLE IF NOT EXISTS ">> \o tableName \o <<" (\n    ">>
    \o StringsJoin(columns, <<",\n    ">>) \o <<"\n);">>
CreateTableDown(tableName) == <<"DROP TABLE IF EXISTS ">> \o tableName \o <<";">>
DropTableUp(tableName) == <<"DROP TABLE IF EXISTS ">> \o tableName \o <<";">>
DropTableDown(tableName) == <<"-", "-", " Cannot restore dropped table ">> \o tableName
AddColumnUp(tableName, columnDef) ==
  <<"ALTER TABLE ">> \o tableName \o <<" ADD COLUMN ">> \o columnDef \o <<";">>
AddColumnDown(tableName, columnName) ==
  <<"ALTER TABLE ">> \o tableName \o <<" DROP COLUMN ">> \o columnName \o <<";">>
DropColumnUp(tableName, columnName) ==
  <<"ALTER TABLE ">> \o tableName \o <<" DROP COLUMN ">> \o columnName \o <<";">>
DropColumnDown(tableName, columnName) ==
  <<"-", "-", " Cannot restore dropped column ">> \o tableName \o <<".">> \o columnName
    \o <<" without definition">>
RenameColumnUp(tableName, oldName, newName) ==
  <<"ALTER TABLE ">> \o tableName \o <<" RENAME COLUMN ">> \o oldName \o <<" TO ">>
    \o newName \o <<";">>
ChangeColumnUp(tableName, columnName, newDefinition) ==
  <<"ALTER TABLE ">> \o tableName \o <<" ALTER COLUMN ">> \o columnName \o <<" ">>
    \o newDefinition \o <<";">>
ChangeColumnDown(tableName, columnName) ==
  <<"-", "-", " Cannot reverse column change for ">> \o tableName \o <<".">> \o columnName
CreateIndexUp(indexName, tableName, columns) ==
  <<"CREATE INDEX ">> \o indexName \o <<" ON ">> \o tableName \o <<" (">>
    \o StringsJoin(columns, <<", ">>) \o <<");">>
CreateUniqueIndexUp(indexName, tableName, columns) ==
  <<"CREATE UNIQUE INDEX ">> \o indexName \o <<" ON ">> \o tableName \o <<" (">>
    \o StringsJoin(columns, <<", ">>) \o <<");">>
DropIndexUp(indexName) == <<"DROP INDEX IF EXISTS ">> \o indexName \o <<";">>
DropIndexDown(indexName) ==
  <<"-", "-", " Cannot restore dropped index ">> \o indexName \o <<" without definition">>
ForeignKeyName(tableName, columnName) == <<"fk_">> \o tableName \o <<"_">> \o columnName
AddForeignKeyUp(tableName, constraintName, columnName, refTable, refColumn) ==
  <<"ALTER TABLE ">> \o tableName \o <<" ADD CONSTRAINT ">> \o constraintName
    \o <<" FOREIGN KEY (">> \o columnName \o <<") REFERENCES ">> \o refTable \o <<"(">>
    \o refColumn \o <<");">>
DropConstraint(tableName, constraintName) ==
  <<"ALTER TABLE ">> \o tableName \o <<" DROP CONSTRAINT IF EXISTS ">> \o constraintName
    \o <<";">>
DropForeignKeyDown(constraintName) ==
  <<"-", "-", " Cannot restore dropped foreign key ">> \o constraintName
AddPrimaryKeyUp(tableName, constraintName, columns) ==
  <<"ALTER TABLE ">> \o tableName \o <<" ADD CONSTRAINT ">> \o constraintName
    \o <<" PRIMARY KEY (">> \o StringsJoin(columns, <<", ">>) \o <<");">>
AddCheckUp(tableName, constraintName, condition) ==
  <<"ALTER TABLE ">> \o tableName \o <<" ADD CONSTRAINT ">> \o constraintName
    \o <<" CHECK (">> \o condition \o <<");">>

\* a MigrationBuilder just created: no call made, Build not yet called
NewBuilder ==
  [migration |-> CreateMigration(MigA.id, MigA.description),
   calls |-> <<>>, built |-> FALSE, atBuild |-> AsMigration(CreateMigration(MigA.id, MigA.description))]

\* ------------------------------------------------------------- state

VARIABLES
  topo,         \* who calls what: one caller, two callers of one Migrator, or two Migrators
  migrations,   \* Migrator.migrations of each instance
  mu,           \* Migrator.mu of each instance: the thread holding it
  tableExists,  \* the store: schema_migrations exists
  indexExists,  \* the store: idx_schema_migrations_batch exists
  ledger,       \* the store: committed rows of schema_migrations, in insertion order
  schema,       \* the store: committed statements, in execution order
  txs,          \* the store: the open transaction of each thread's call
  th,           \* each thread's call: its position and local variables
  gh,           \* each thread's call: the store and candidates when it started, its operations
  builder       \* a MigrationBuilder: its baseMigration, the calls made on it, what Build returned

vars == <<topo, migrations, mu, tableExists, indexExists, ledger, schema, txs, th, gh, builder>>

Active == IF topo = "single" THEN {1} ELSE Threads
InstOf(t) == IF topo = "twoInstances" THEN t ELSE 1

Locals ==
  [pc |-> "idle", op |-> "none", steps |-> 0, applied |-> <<>>,
   newMigrations |-> <<>>, nextBatch |-> 0, rollbackList |-> <<>>,
   migrationMap |-> <<>>, i |-> 0, q |-> 0, err |-> Nil, out |-> <<>>,
   args |-> <<>>]

Ghost ==
  [ledger |-> <<>>, schema |-> <<>>, migrations |-> <<>>,
   table |-> FALSE, index |-> FALSE, trace |-> <<>>, assigned |-> {},
   before |-> <<>>]

\* the batch numbers of the caller's earlier Up calls that committed a batch
Assigned(t) ==
  gh[t].assigned \cup
  (IF /\ th[t].op = "Up"
      /\ \E p \in DOMAIN gh[t].trace :
           gh[t].trace[p].k = "commit" /\ gh[t].trace[p].ok
   THEN {th[t].nextBatch} ELSE {})

\* for a Down(steps) that the caller makes right after its Up that committed
\* `steps` rows: the ledger as it was before that Up
Before(t, steps) ==
  IF /\ th[t].op = "Up"
     /\ steps = Len(th[t].newMigrations)
     /\ \E p \in DOMAIN gh[t].trace :
          gh[t].trace[p].k = "commit" /\ gh[t].trace[p].ok
  THEN <<gh[t].ledger>> ELSE <<>>

Snapshot(t) ==
  [ledger |-> ledger, schema |-> schema, migrations |-> migrations[InstOf(t)],
   table |-> tableExists, index |-> indexExists, trace |-> <<>>,
   assigned |-> Assigned(t), before |-> <<>>]

Seeds == {<<>>, <<LegacyRow>>}

InitStore ==
  /\ ledger \in Seeds
  /\ tableExists = (ledger # <<>>)
  /\ indexExists = (ledger # <<>>)
  /\ schema = <<>>
  /\ txs = [t \in Threads |-> NoTx]

InitCalls ==
  /\ migrations = [r \in Instances |-> <<>>]
  /\ mu = [r \in Instances |-> NoThread]
  /\ th = [t \in Threads |-> Locals]
  /\ gh = [t \in Threads |-> Ghost]

Init == topo = "single" /\ InitStore /\ InitCalls /\ builder = NewBuilder

\* a caller is between calls; in the deployments with two callers each
\* caller makes one call, so that the two calls race
Between(t) ==
  /\ t \in Active
  /\ th[t].pc = "idle" \/ (topo = "single" /\ th[t].pc = "done")

\* a call that takes the lock although another call holds it
CanCallNoLock(t) == Between(t)

\* a call may start: the caller is between calls and the lock is free
CanCall(t) ==
  /\ Between(t)
  /\ mu[InstOf(t)] = NoThread

\* ------------------------------------------------------------- actions

\* a Register that drops an argument whose ID is already a candidate
appendMigrationsUnique(list, args) ==
  list \o SelectSeq(args, LAMBDA m : m.id \notin {x.id : x \in Range(list)})

\* Register, line 39: append(m.migrations, migration...)
appendMigrations(list, args) == list \o args

\* Register: lock, append the arguments
Register(t, args) ==
  /\ CanCall(t)
  /\ Len(migrations[InstOf(t)]) + Len(args) <= MaxReg
  /\ mu' = [mu EXCEPT ![InstOf(t)] = t]
  /\ migrations' = [migrations EXCEPT ![InstOf(t)] = appendMigrations(@, args)]
  /\ th' = [th EXCEPT ![t] =
       [Locals EXCEPT !.pc = "ret", !.op = "Register", !.args = args]]
  /\ gh' = [gh EXCEPT ![t] = Snapshot(t)]
  /\ UNCHANGED <<topo, builder, tableExists, indexExists, ledger, schema, txs>>

\* Up, lines 42-74: lock, read the ledger, sort the candidates in place,
\* keep the unapplied ones, number the batch
Up(t) ==
  /\ CanCall(t)
  /\ Len(schema) < MaxSchema
  /\ \E outcome \in Outcomes :
       LET got == getAppliedMigrations(outcome, tableExists, indexExists, ledger)
       IN  /\ tableExists' = got.table
           /\ indexExists' = got.index
           /\ gh' = [gh EXCEPT ![t] = [Snapshot(t) EXCEPT !.trace = got.ops]]
           /\ IF got.err # Nil
              THEN /\ th' = [th EXCEPT ![t] =
                        [Locals EXCEPT !.pc = "ret", !.op = "Up",
                           !.err = Join({ErrFailedToGetAppliedMigrations}, got.err)]]
                   /\ UNCHANGED migrations
              ELSE \E sorted \in SortSlice(migrations[InstOf(t)],
                                            {p \in Pairs(migrations[InstOf(t)]) :
                                               LessID(p[1], p[2])}) :
                     LET newMigrations == Unapplied(sorted, got.rows)
                     IN  /\ migrations' = [migrations EXCEPT ![InstOf(t)] = sorted]
                         /\ th' = [th EXCEPT ![t] =
                              IF Len(newMigrations) = 0
                              THEN [Locals EXCEPT !.pc = "ret", !.op = "Up",
                                      !.applied = got.rows]
                              ELSE [Locals EXCEPT !.pc = "begin", !.op = "Up",
                                      !.applied = got.rows,
                                      !.newMigrations = newMigrations,
                                      !.nextBatch = getNextBatchNumber(got.rows)]]
  /\ mu' = [mu EXCEPT ![InstOf(t)] = t]
  /\ UNCHANGED <<topo, builder, ledger, schema, txs>>

\* Down, lines 79-94: lock, read the ledger, refuse an empty one, build the
\* lookup and the rollback list
Down(t, steps) ==
  /\ CanCall(t)
  /\ Len(schema) < MaxSchema
  /\ \E outcome \in Outcomes :
       LET got == getAppliedMigrations(outcome, tableExists, indexExists, ledger)
       IN  /\ tableExists' = got.table
           /\ indexExists' = got.index
           /\ gh' = [gh EXCEPT ![t] = [Snapshot(t) EXCEPT !.trace = got.ops,
                                       !.before = Before(t, steps)]]
           /\ th' = [th EXCEPT ![t] =
                IF got.err # Nil
                THEN [Locals EXCEPT !.pc = "ret", !.op = "Down", !.steps = steps,
                        !.err = Join({ErrFailedToGetAppliedMigrations}, got.err)]
                ELSE IF NothingToRollback(got.rows)
                THEN [Locals EXCEPT !.pc = "ret", !.op = "Down", !.steps = steps,
                        !.err = {ErrNoMigrationsToRollback}]
                ELSE [Locals EXCEPT !.pc = "begin", !.op = "Down", !.steps = steps,
                        !.applied = got.rows,
                        !.migrationMap = buildMigrationMap(migrations[InstOf(t)]),
                        !.rollbackList = buildRollbackList(got.rows, steps)]]
  /\ mu' = [mu EXCEPT ![InstOf(t)] = t]
  /\ UNCHANGED <<topo, builder, migrations, ledger, schema, txs>>

\* Status: lock, read the ledger
Status(t) ==
  /\ CanCall(t)
  /\ \E outcome \in Outcomes :
       LET got == getAppliedMigrations(outcome, tableExists, indexExists, ledger)
       IN  /\ tableExists' = got.table
           /\ indexExists' = got.index
           /\ gh' = [gh EXCEPT ![t] = [Snapshot(t) EXCEPT !.trace = got.ops]]
           /\ th' = [th EXCEPT ![t] =
                [Locals EXCEPT !.pc = "ret", !.op = "Status",
                   !.err = got.err, !.out = got.rows]]
  /\ mu' = [mu EXCEPT ![InstOf(t)] = t]
  /\ UNCHANGED <<topo, builder, migrations, ledger, schema, txs>>

Log(t, op) == [gh EXCEPT ![t].trace = Append(@, op)]

\* a failure that records the error and lets the call go on
FailContinues(t, err) == [th EXCEPT ![t].err = err]

Fail(t, err) == [th EXCEPT ![t].pc = "ret", ![t].err = err]

\* executeMigrationBatch / executeRollback: r.db.BeginTx
BeginTx(t) ==
  /\ th[t].pc = "begin"
  /\ \E ok \in BOOLEAN :
       /\ gh' = Log(t, Op("begin", NoID, NoStmt, ok))
       /\ IF ok
          THEN /\ txs' = [txs EXCEPT ![t] = OpenTx]
               /\ th' = IF Len(th[t].newMigrations) + Len(th[t].rollbackList) = 0
                        THEN [th EXCEPT ![t].pc = "commit"]
                        ELSE [th EXCEPT ![t].pc = "loop", ![t].i = 1, ![t].q = 1]
          ELSE /\ th' = Fail(t, Join({ErrFailedToBeginTransaction}, {Cause}))
               /\ UNCHANGED txs
  /\ UNCHANGED <<topo, builder, migrations, mu, tableExists, indexExists, ledger, schema>>

\* a failed forward query reported as the store's error alone
executeQueryErrUnwrapped(err) == err

\* executeMigrationUp, line 220: errors.Join(ErrFailedToExecuteQuery, err)
executeQueryErr(err) == Join({ErrFailedToExecuteQuery}, err)

\* executeMigrationUp, lines 214-222: the next forward query of the migration
ExecuteUpQuery(t) ==
  /\ th[t].pc = "loop" /\ th[t].op = "Up"
  /\ LET migration == th[t].newMigrations[th[t].i]
     IN  /\ th[t].q <= Len(migration.up)
         /\ LET query == migration.up[th[t].q]
            IN  IF SkipUp(query)
                THEN /\ th' = [th EXCEPT ![t].q = @ + 1]
                     /\ UNCHANGED <<txs, gh>>
                ELSE \E ok \in BOOLEAN :
                       /\ gh' = Log(t, Op("exec", migration.id, query, ok))
                       /\ IF ok
                          THEN /\ txs' = [txs EXCEPT ![t] = TxExec(@, query)]
                               /\ th' = [th EXCEPT ![t].q = @ + 1]
                          ELSE /\ th' = Fail(t, Join({ErrMigrationFailed},
                                                 executeQueryErr({Cause})))
                               /\ UNCHANGED txs
  /\ UNCHANGED <<topo, builder, migrations, mu, tableExists, indexExists, ledger, schema>>

\* after a row's work the loop moves to the next row, or to Commit
NextRow(t, n) ==
  IF th[t].i < n
  THEN [th EXCEPT ![t].i = @ + 1, ![t].q = 1]
  ELSE [th EXCEPT ![t].pc = "commit"]

\* executeMigrationUp, lines 224-228: the INSERT, refused for an ID the
\* ledger already holds
InsertMigrationRecord(t) ==
  /\ th[t].pc = "loop" /\ th[t].op = "Up"
  /\ LET migration == th[t].newMigrations[th[t].i]
         row == LedgerRow(migration, BatchFor(th[t].nextBatch, th[t].i))
     IN  /\ th[t].q > Len(migration.up)
         /\ \E ok \in IF InsertRefused(migration.id, ledger, txs[t],
                                        {txs[u] : u \in Threads \ {t}})
                      THEN {FALSE} ELSE BOOLEAN :
              /\ gh' = Log(t, Op("insert", migration.id, NoStmt, ok))
              /\ IF ok
                 THEN /\ txs' = [txs EXCEPT ![t] = TxInsert(@, row)]
                      /\ th' = NextRow(t, Len(th[t].newMigrations))
                 ELSE /\ th' = Fail(t, Join({ErrMigrationFailed}, {Cause}))
                      /\ UNCHANGED txs
  /\ UNCHANGED <<topo, builder, migrations, mu, tableExists, indexExists, ledger, schema>>

\* a rollback that runs a statement for a row whose ID is not registered
DownQueriesUnregisteredRuns(t) ==
  LET migrationStatus == th[t].rollbackList[th[t].i]
  IN  IF migrationStatus.id \in DOMAIN th[t].migrationMap
      THEN th[t].migrationMap[migrationStatus.id].down
      ELSE << <<"?">> >>

\* the reverse queries rollbackSingleMigration runs for a row: those of the
\* registered migration, none when the ID is not registered
DownQueries(t) ==
  LET migrationStatus == th[t].rollbackList[th[t].i]
  IN  IF migrationStatus.id \in DOMAIN th[t].migrationMap
      THEN th[t].migrationMap[migrationStatus.id].down
      ELSE <<>>

\* rollbackSingleMigration, lines 193-204: the next reverse query of the row
RollbackQuery(t) ==
  /\ th[t].pc = "loop" /\ th[t].op = "Down"
  /\ th[t].q <= Len(DownQueries(t))
  /\ LET query == DownQueries(t)[th[t].q]
         id == th[t].rollbackList[th[t].i].id
     IN  IF SkipDown(query)
         THEN /\ th' = [th EXCEPT ![t].q = @ + 1]
              /\ UNCHANGED <<txs, gh>>
         ELSE \E ok \in BOOLEAN :
                /\ gh' = Log(t, Op("exec", id, query, ok))
                /\ IF ok
                   THEN /\ txs' = [txs EXCEPT ![t] = TxExec(@, query)]
                        /\ th' = [th EXCEPT ![t].q = @ + 1]
                   ELSE /\ th' = Fail(t, Join({ErrMigrationFailed}, {Cause}))
                        /\ UNCHANGED txs
  /\ UNCHANGED <<topo, builder, migrations, mu, tableExists, indexExists, ledger, schema>>

\* rollbackSingleMigration, lines 206-208: deleteMigrationRecord
DeleteMigrationRecord(t) ==
  /\ th[t].pc = "loop" /\ th[t].op = "Down"
  /\ th[t].q > Len(DownQueries(t))
  /\ LET id == th[t].rollbackList[th[t].i].id
     IN  \E ok \in BOOLEAN :
           /\ gh' = Log(t, Op("delete", id, NoStmt, ok))
           /\ IF ok
              THEN /\ txs' = [txs EXCEPT ![t] = TxDelete(@, id)]
                   /\ th' = NextRow(t, Len(th[t].rollbackList))
              ELSE /\ th' = Fail(t, Join({ErrMigrationFailed}, {Cause}))
                   /\ UNCHANGED txs
  /\ UNCHANGED <<topo, builder, migrations, mu, tableExists, indexExists, ledger, schema>>

\* tx.Commit(): on success tx = nil; a failed Commit returns the store's error as it is
Commit(t) ==
  /\ th[t].pc = "commit"
  /\ \E ok \in BOOLEAN :
       /\ gh' = Log(t, Op("commit", NoID, NoStmt, ok))
       /\ IF ok
          THEN /\ ledger' = CommitLedger(ledger, txs[t])
               /\ schema' = CommitSchema(schema, txs[t])
               /\ txs' = [txs EXCEPT ![t] = NoTx]
               /\ th' = [th EXCEPT ![t].pc = "ret"]
          ELSE /\ th' = Fail(t, {Cause})
               /\ UNCHANGED <<ledger, schema, txs>>
  /\ UNCHANGED <<topo, builder, migrations, mu, tableExists, indexExists>>

\* a return that leaves the lock held
UnlockForgotten(t) == mu

\* mu.Unlock(), deferred by every call
Unlock(t) == [mu EXCEPT ![InstOf(t)] = NoThread]

\* the deferred calls of a returning call: tx.Rollback() when tx is not nil,
\* then mu.Unlock()
Return(t) ==
  /\ th[t].pc = "ret"
  /\ IF txs[t].open
     THEN /\ ledger' = RollbackLedger(ledger, txs[t])
          /\ schema' = RollbackSchema(schema, txs[t])
          /\ txs' = [txs EXCEPT ![t] = NoTx]
          /\ gh' = Log(t, Op("rollback", NoID, NoStmt, TRUE))
     ELSE UNCHANGED <<ledger, schema, txs, gh>>
  /\ mu' = Unlock(t)
  /\ th' = [th EXCEPT ![t].pc = "done"]
  /\ UNCHANGED <<topo, builder, migrations, tableExists, indexExists>>

ArgLists == UNION {[1..n -> Migs] : n \in 0..MaxArgs}
StepsArgs == (-1)..MaxSteps

Next ==
  \E t \in Threads :
    \/ \E args \in ArgLists : Register(t, args)
    \/ Up(t)
    \/ \E steps \in StepsArgs : Down(t, steps)
    \/ Status(t)
    \/ BeginTx(t)
    \/ ExecuteUpQuery(t)
    \/ InsertMigrationRecord(t)
    \/ RollbackQuery(t)
    \/ DeleteMigrationRecord(t)
    \/ Commit(t)
    \/ Return(t)

Spec == Init /\ [][Next]_vars

\* the store and the candidate lists two racing calls may find: an empty or
\* seeded ledger, or migration "1" applied as batch 1
Stores ==
  {[ledger |-> seed, schema |-> <<>>] : seed \in Seeds} \cup
  {[ledger |-> <<LedgerRow(MigA, BatchFor(getNextBatchNumber(<<>>), 1))>>,
    schema |-> SelectSeq(MigA.up, LAMBDA query : ~SkipUp(query))]}

Registered == {<<MigA>>, <<MigB, MigA>>}

InitRace(deployment) ==
  /\ topo = deployment
  /\ \E s \in Stores :
       /\ ledger = s.ledger
       /\ schema = s.schema
       /\ tableExists = (s.ledger # <<>>)
       /\ indexExists = (s.ledger # <<>>)
  /\ txs = [t \in Threads |-> NoTx]
  /\ migrations \in [Instances -> Registered \cup {<<>>}]
  /\ \A r \in Instances : (migrations[r] = <<>>) = (r \notin {InstOf(t) : t \in Threads})
  /\ mu = [r \in Instances |-> NoThread]
  /\ th = [t \in Threads |-> Locals]
  /\ gh = [t \in Threads |-> Ghost]
  /\ builder = NewBuilder

\* two callers of one Migrator
InitShared == InitRace("sharedInstance")
SpecShared == InitShared /\ [][Next]_vars

\* the steps of a call that holds the lock: each is a statement of the
\* caller's goroutine or a store operation, which returns with a result or
\* an error
Step(t) ==
  \/ BeginTx(t)
  \/ ExecuteUpQuery(t)
  \/ InsertMigrationRecord(t)
  \/ RollbackQuery(t)
  \/ DeleteMigrationRecord(t)
  \/ Commit(t)
  \/ Return(t)

\* two callers of one Migrator, each call running on once it has the lock
FairShared == SpecShared /\ \A t \in Threads : WF_vars(Step(t))

\* two Migrators, one caller each, on one store
InitTwo == InitRace("twoInstances")
SpecTwo == InitTwo /\ [][Next]_vars

\* ------------------------------------------------------------- builder calls

TableNames == {<<"t">>}
ColumnNames == {<<"c">>}
ColumnLists == {<<<<"c">>>>, <<<<"c">>, <<"d">>>>}
ColumnDefs == {<<"c", " ", "T">>, <<" ">>}
IndexNames == {<<"i">>}
ConstraintNames == {<<"k">>}
Queries == {<<"x">>}
PairedOps ==
  {"CreateTable", "DropTable", "AddColumn", "DropColumn", "RenameColumn",
   "ChangeColumn", "CreateIndex", "CreateUniqueIndex", "DropIndex",
   "AddForeignKey", "AddForeignKeyWithName", "DropForeignKey", "AddPrimaryKey",
   "AddCheck", "Raw"}

migratorVars == <<topo, migrations, mu, tableExists, indexExists, ledger, schema, txs, th, gh>>

\* a call on builder b: its baseMigration after the call, the queries the
\* call passed to AddUp and to AddDown, whether the call returned
Called(b, op, migration, up, down, returned) ==
  [b EXCEPT
     !.migration = migration,
     !.calls = Append(@, [op |-> op, up |-> up, down |-> down, returned |-> returned])]

\* b.migration.AddUp(up); b.migration.AddDown(down); return b
Paired(b, op, up, down) ==
  Called(b, op, AddDown(AddUp(b.migration, up), down), <<up>>, <<down>>, TRUE)

\* the builder after each operation
CreateTableOn(b, tableName, columns) ==
  Paired(b, "CreateTable", CreateTableUp(tableName, columns), CreateTableDown(tableName))

DropTableOn(b, tableName) ==
  Paired(b, "DropTable", DropTableUp(tableName), DropTableDown(tableName))

\* AddColumn: AddUp, then strings.Fields(columnDef)[0], which panics (index
\* out of range) for a columnDef without a word, then AddDown
AddColumnOn(b, tableName, columnDef) ==
  IF Fields(columnDef) = <<>>
  THEN Called(b, "AddColumn", AddUp(b.migration, AddColumnUp(tableName, columnDef)),
              <<AddColumnUp(tableName, columnDef)>>, <<>>, FALSE)
  ELSE Paired(b, "AddColumn", AddColumnUp(tableName, columnDef),
              AddColumnDown(tableName, Fields(columnDef)[1]))

DropColumnOn(b, tableName, columnName) ==
  Paired(b, "DropColumn", DropColumnUp(tableName, columnName),
         DropColumnDown(tableName, columnName))

RenameColumnOn(b, tableName, oldName, newName) ==
  Paired(b, "RenameColumn", RenameColumnUp(tableName, oldName, newName),
         RenameColumnUp(tableName, newName, oldName))

ChangeColumnOn(b, tableName, columnName, newDefinition) ==
  Paired(b, "ChangeColumn", ChangeColumnUp(tableName, columnName, newDefinition),
         ChangeColumnDown(tableName, columnName))

CreateIndexOn(b, indexName, tableName, columns) ==
  Paired(b, "CreateIndex", CreateIndexUp(indexName, tableName, columns),
         DropIndexUp(indexName))

CreateUniqueIndexOn(b, indexName, tableName, columns) ==
  Paired(b, "CreateUniqueIndex", CreateUniqueIndexUp(indexName, tableName, columns),
         DropIndexUp(indexName))

DropIndexOn(b, indexName) ==
  Paired(b, "DropIndex", DropIndexUp(indexName), DropIndexDown(indexName))

AddForeignKeyOn(b, tableName, columnName, refTable, refColumn) ==
  Paired(b, "AddForeignKey",
         AddForeignKeyUp(tableName, ForeignKeyName(tableName, columnName), columnName,
                         refTable, refColumn),
         DropConstraint(tableName, ForeignKeyName(tableName, columnName)))

AddForeignKeyWithNameOn(b, tableName, constraintName, columnName, refTable, refColumn) ==
  Paired(b, "AddForeignKeyWithName",
         AddForeignKeyUp(tableName, constraintName, columnName, refTable, refColumn),
         DropConstraint(tableName, constraintName))

DropForeignKeyOn(b, tableName, constraintName) ==
  Paired(b, "DropForeignKey", DropConstraint(tableName, constraintName),
         DropForeignKeyDown(constraintName))

AddPrimaryKeyOn(b, tableName, constraintName, columns) ==
  Paired(b, "AddPrimaryKey", AddPrimaryKeyUp(tableName, constraintName, columns),
         DropConstraint(tableName, constraintName))

AddCheckOn(b, tableName, constraintName, condition) ==
  Paired(b, "AddCheck", AddCheckUp(tableName, constraintName, condition),
         DropConstraint(tableName, constraintName))

RawUpOn(b, query) ==
  Called(b, "RawUp", AddUp(b.migration, query), <<query>>, <<>>, TRUE)

RawDownOn(b, query) ==
  Called(b, "RawDown", AddDown(b.migration, query), <<>>, <<query>>, TRUE)

RawOn(b, upQuery, downQuery) == Paired(b, "Raw", upQuery, downQuery)

\* Build on builder b: atBuild records what the returned Migration showed
\* when it was returned
BuildOn(b) == [b EXCEPT !.built = TRUE, !.atBuild = AsMigration(b.migration)]

\* a call made on the builder of the program
Calls(after) ==
  /\ Len(builder.calls) < MaxCalls
  /\ builder' = after
  /\ UNCHANGED migratorVars

CreateTable(tableName, columns) == Calls(CreateTableOn(builder, tableName, columns))
DropTable(tableName) == Calls(DropTableOn(builder, tableName))
AddColumn(tableName, columnDef) == Calls(AddColumnOn(builder, tableName, columnDef))
DropColumn(tableName, columnName) == Calls(DropColumnOn(builder, tableName, columnName))
RenameColumn(tableName, oldName, newName) ==
  Calls(RenameColumnOn(builder, tableName, oldName, newName))
ChangeColumn(tableName, columnName, newDefinition) ==
  Calls(ChangeColumnOn(builder, tableName, columnName, newDefinition))
CreateIndex(indexName, tableName, columns) ==
  Calls(CreateIndexOn(builder, indexName, tableName, columns))
CreateUniqueIndex(indexName, tableName, columns) ==
  Calls(CreateUniqueIndexOn(builder, indexName, tableName, columns))
DropIndex(indexName) == Calls(DropIndexOn(builder, indexName))
AddForeignKey(tableName, columnName, refTable, refColumn) ==
  Calls(AddForeignKeyOn(builder, tableName, columnName, refTable, refColumn))
AddForeignKeyWithName(tableName, constraintName, columnName, refTable, refColumn) ==
  Calls(AddForeignKeyWithNameOn(builder, tableName, constraintName, columnName, refTable, refColumn))
DropForeignKey(tableName, constraintName) ==
  Calls(DropForeignKeyOn(builder, tableName, constraintName))
AddPrimaryKey(tableName, constraintName, columns) ==
  Calls(AddPrimaryKeyOn(builder, tableName, constraintName, columns))
AddCheck(tableName, constraintName, condition) ==
  Calls(AddCheckOn(builder, tableName, constraintName, condition))
RawUp(query) == Calls(RawUpOn(builder, query))
RawDown(query) == Calls(RawDownOn(builder, query))
Raw(upQuery, downQuery) == Calls(RawOn(builder, upQuery, downQuery))

\* Build returns b.migration, the builder's own baseMigration: what the
\* returned Migration shows is what that baseMigration holds
Built == AsMigration(builder.migration)

Build ==
  /\ ~builder.built \/ builder.atBuild # Built
  /\ builder' = BuildOn(builder)
  /\ UNCHANGED migratorVars

NextBuilder ==
  \/ \E tableName \in TableNames, columns \in ColumnLists : CreateTable(tableName, columns)
  \/ \E tableName \in TableNames : DropTable(tableName)
  \/ \E tableName \in TableNames, columnDef \in ColumnDefs : AddColumn(tableName, columnDef)
  \/ \E tableName \in TableNames, columnName \in ColumnNames : DropColumn(tableName, columnName)
  \/ \E tableName \in TableNames, oldName \in ColumnNames :
       RenameColumn(tableName, oldName, <<"d">>)
  \/ \E tableName \in TableNames, columnName \in ColumnNames :
       ChangeColumn(tableName, columnName, <<"T">>)
  \/ \E indexName \in IndexNames, tableName \in TableNames, columns \in ColumnLists :
       CreateIndex(indexName, tableName, columns)
  \/ \E indexName \in IndexNames, tableName \in TableNames, columns \in ColumnLists :
       CreateUniqueIndex(indexName, tableName, columns)
  \/ \E indexName \in IndexNames : DropIndex(indexName)
  \/ \E tableName \in TableNames, columnName \in ColumnNames :
       AddForeignKey(tableName, columnName, <<"u">>, <<"id">>)
  \/ \E tableName \in TableNames, constraintName \in ConstraintNames,
        columnName \in ColumnNames :
       AddForeignKeyWithName(tableName, constraintName, columnName, <<"u">>, <<"id">>)
  \/ \E tableName \in TableNames, constraintName \in ConstraintNames :
       DropForeignKey(tableName, constraintName)
  \/ \E tableName \in TableNames, constraintName \in ConstraintNames,
        columns \in ColumnLists :
       AddPrimaryKey(tableName, constraintName, columns)
  \/ \E tableName \in TableNames, constraintName \in ConstraintNames :
       AddCheck(tableName, constraintName, <<"c", ">", "0">>)
  \/ \E query \in Queries : RawUp(query)
  \/ \E query \in Queries : RawDown(query)
  \/ \E upQuery \in Queries, downQuery \in Queries : Raw(upQuery, downQuery)
  \/ Build

\* the builders of the migrations that are registered and rolled back: one
\* of reversible operations, one of irreversible ones, one of both
Chains ==
  {CreateIndexOn(AddColumnOn(CreateTableOn(NewBuilder, <<"t">>, <<<<"c">>>>),
                             <<"t">>, <<"c", " ", "T">>),
                 <<"i">>, <<"t">>, <<<<"c">>>>),
   ChangeColumnOn(DropColumnOn(DropTableOn(NewBuilder, <<"t">>), <<"t">>, <<"c">>),
                  <<"t">>, <<"c">>, <<"T">>),
   DropForeignKeyOn(DropIndexOn(CreateTableOn(NewBuilder, <<"t">>, <<<<"c">>>>), <<"i">>),
                    <<"t">>, <<"k">>)}

\* one Migrator with the Migration of a builder registered, applied by an
\* earlier run of the program or not yet
InitBuilt ==
  /\ topo = "single"
  /\ builder \in {BuildOn(b) : b \in Chains}
  /\ migrations = [r \in Instances |-> IF r = 1 THEN <<Built>> ELSE <<>>]
  /\ ledger \in {<<>>, <<LedgerRow(Built, 1)>>}
  /\ tableExists = (ledger # <<>>)
  /\ indexExists = (ledger # <<>>)
  /\ schema = <<>>
  /\ txs = [t \in Threads |-> NoTx]
  /\ mu = [r \in Instances |-> NoThread]
  /\ th = [t \in Threads |-> Locals]
  /\ gh = [t \in Threads |-> Ghost]
SpecBuilt == InitBuilt /\ [][Next]_vars

InitBuilder == topo = "builder" /\ InitStore /\ InitCalls /\ builder = NewBuilder
SpecBuilder == InitBuilder /\ [][NextBuilder]_vars

\* ------------------------------------------------------------- properties

Returned(t, op) == th[t].pc = "done" /\ th[t].op = op
Trace(t) == gh[t].trace
IDsOf(rows) == {r.id : r \in Range(rows)}
\* the call attempted an operation of one of these kinds / one that failed
Did(t, kinds) == \E p \in DOMAIN Trace(t) : Trace(t)[p].k \in kinds
DidFail(t, kinds) ==
  \E p \in DOMAIN Trace(t) : Trace(t)[p].k \in kinds /\ ~Trace(t)[p].ok
ReadOK(t) == \E p \in DOMAIN Trace(t) : Trace(t)[p].k = "select" /\ Trace(t)[p].ok
\* rows the ledger holds now and did not hold when the call started
NewRows(t) == Range(ledger) \ Range(gh[t].ledger)
IsPrefix(a, b) == Len(a) <= Len(b) /\ SubSeq(b, 1, Len(a)) = a
\* (r1.batch, r1.id) greater than (r2.batch, r2.id)
Greater(r1, r2) ==
  r1.batch > r2.batch \/ (r1.batch = r2.batch /\ StrLess(r2.id, r1.id))

\* C1: an Up call in which a forward statement or a ledger insert failed
\* leaves, once returned, the committed ledger and the committed statements
\* exactly as they were before the call, with no row for any migration of
\* its batch.
C1_UpAllOrNothing ==
  \A t \in Active :
    (Returned(t, "Up") /\ DidFail(t, {"exec", "insert"}))
    => /\ ledger = gh[t].ledger
       /\ schema = gh[t].schema
       /\ \A m \in Range(th[t].newMigrations) : m.id \notin IDsOf(ledger)

\* a batch of three whose second migration failed after the first was inserted
C1_Witness ==
  /\ Returned(1, "Up")
  /\ Len(th[1].newMigrations) = 3
  /\ \E p, q \in DOMAIN Trace(1) :
       /\ p < q
       /\ Trace(1)[p].k = "insert" /\ Trace(1)[p].ok
       /\ Trace(1)[q].k \in {"exec", "insert"} /\ ~Trace(1)[q].ok
       /\ Trace(1)[q].id = th[1].newMigrations[2].id

\* C2: a Down call in which a reverse statement or a row delete failed
\* leaves, once returned, every selected row in the ledger and commits no
\* reverse statement, also of the rows processed before the failing one.
C2_DownAllOrNothing ==
  \A t \in Active :
    (Returned(t, "Down") /\ DidFail(t, {"exec", "delete"}))
    => /\ ledger = gh[t].ledger
       /\ schema = gh[t].schema
       /\ Range(th[t].rollbackList) \subseteq Range(ledger)

\* a row's reverse statement and delete succeeded before a later row failed
C2_Witness ==
  /\ Returned(1, "Down")
  /\ \E p, q, r \in DOMAIN Trace(1) :
       /\ p < q /\ q < r
       /\ Trace(1)[p].k = "exec" /\ Trace(1)[p].ok
       /\ Trace(1)[q].k = "delete" /\ Trace(1)[q].ok
       /\ Trace(1)[r].k \in {"exec", "delete"} /\ ~Trace(1)[r].ok

\* every registered identifier had a ledger row when the call started
AllApplied(t) ==
  \A m \in Range(gh[t].migrations) : m.id \in IDsOf(gh[t].ledger)

\* C3 as stated: an Up call made when every registered identifier has a
\* ledger row returns success, opens no transaction and inserts no row.
C3_AsStated ==
  \A t \in Active :
    (Returned(t, "Up") /\ AllApplied(t))
    => /\ th[t].err = Nil
       /\ ~Did(t, {"begin", "insert"})
       /\ ledger = gh[t].ledger

\* C3, amended: such a call opens no transaction, inserts no row and leaves
\* the ledger (so its batch numbers) as it was; it returns success when the
\* ledger bootstrap and read succeed, and otherwise the read's error.
C3_UpIdempotent ==
  \A t \in Active :
    (Returned(t, "Up") /\ AllApplied(t))
    => /\ ~Did(t, {"begin", "insert"})
       /\ ledger = gh[t].ledger
       /\ ReadOK(t) => th[t].err = Nil
       /\ ~ReadOK(t) => ErrFailedToGetAppliedMigrations \in th[t].err

\* an Up that succeeded with every one of two or more candidates applied
C3_Witness ==
  /\ Returned(1, "Up") /\ AllApplied(1) /\ th[1].err = Nil
  /\ Len(gh[1].migrations) >= 2
  /\ \E r \in Range(ledger) : r.batch >= 1

\* the migrations of a set in ascending identifier order
RECURSIVE AscendingByID(_)
AscendingByID(S) ==
  IF S = {} THEN <<>>
  ELSE LET m == CHOOSE x \in S : \A y \in S \ {x} : StrLess(x.id, y.id)
       IN  <<m>> \o AscendingByID(S \ {m})

RECURSIVE Forward(_)
Forward(ms) ==
  IF ms = <<>> THEN <<>>
  ELSE SelectSeq(Head(ms).up, LAMBDA query : ~SkipUp(query)) \o Forward(Tail(ms))

DistinctIDs(ms) ==
  \A a, b \in DOMAIN ms : a # b => ms[a].id # ms[b].id

\* the registered migrations without a ledger row at the start, as a set
UnappliedSet(t) ==
  {m \in Range(gh[t].migrations) : m.id \notin IDsOf(gh[t].ledger)}

Statements(trace) ==
  LET execs == SelectSeq(trace, LAMBDA o : o.k = "exec")
  IN  [k \in DOMAIN execs |-> execs[k].s]

\* C4: with distinct registered identifiers, the forward statements an Up
\* call executes and the rows it commits are those of the set of unapplied
\* registrations taken in ascending identifier order, whatever the order of
\* registration (the statements up to the failing one when the call fails).
C4_UpAscendingOrder ==
  \A t \in Active :
    (Returned(t, "Up") /\ ReadOK(t) /\ DistinctIDs(gh[t].migrations))
    => LET batch == AscendingByID(UnappliedSet(t))
       IN  /\ IsPrefix(Statements(Trace(t)), Forward(batch))
           /\ th[t].err = Nil =>
                /\ Statements(Trace(t)) = Forward(batch)
                /\ ledger = gh[t].ledger \o
                     [k \in DOMAIN batch |->
                        [id |-> batch[k].id, description |-> batch[k].description,
                         batch |-> th[t].nextBatch]]

\* a successful Up of three migrations registered in descending order
C4_Witness ==
  /\ Returned(1, "Up") /\ th[1].err = Nil
  /\ gh[1].migrations = <<MigC, MigB, MigA>>
  /\ Cardinality(UnappliedSet(1)) = 3

\* the ledger row a traced operation of Down belongs to
RowOf(t, p) == CHOOSE r \in Range(gh[t].ledger) : r.id = Trace(t)[p].id

\* C5: in a Down call every reverse statement and the delete of a row come
\* before any reverse statement or the delete of a row with a smaller
\* (batch, identifier).
C5_DownDescendingOrder ==
  \A t \in Active :
    th[t].op = "Down"
    => \A p, q \in {x \in DOMAIN Trace(t) : Trace(t)[x].k \in {"exec", "delete"}} :
         Greater(RowOf(t, p), RowOf(t, q)) => p < q

\* a Down over two batches, the later one holding two rows, all rolled back
C5_Witness ==
  /\ Returned(1, "Down") /\ th[1].err = Nil
  /\ Len(th[1].rollbackList) >= 3
  /\ \E a, b, c \in Range(th[1].rollbackList) :
       a.batch = b.batch /\ a.id # b.id /\ c.batch < a.batch
  /\ Len(Statements(Trace(1))) >= 2

\* the rows a Down(steps) is to remove: the k greatest by (batch, identifier)
Selected(rows, steps) ==
  LET n == Len(rows)
      k == IF steps <= 0 \/ steps >= n THEN n ELSE steps
  IN  {r \in Range(rows) :
         Cardinality({o \in Range(rows) : Greater(o, r)}) < k}

\* C6: a successful Down(steps) on n > 0 rows removes all of them when
\* steps <= 0 or steps >= n, and otherwise exactly the steps greatest rows
\* by (batch, identifier); every other row stays as it was.
C6_StepsClamping ==
  \A t \in Active :
    (Returned(t, "Down") /\ th[t].err = Nil /\ Len(gh[t].ledger) > 0)
    => ledger = SelectSeq(gh[t].ledger,
                          LAMBDA r : r \notin Selected(gh[t].ledger, th[t].steps))

\* Down(1) on a batch holding "1" and "2" removed only "2"
C6_Witness ==
  /\ Returned(1, "Down") /\ th[1].err = Nil /\ th[1].steps = 1
  /\ \E a, c \in Range(gh[1].ledger) :
       /\ a.id = MigA.id /\ c.id = MigC.id /\ a.batch = c.batch
       /\ a \in Range(ledger) /\ c \notin Range(ledger)
       /\ Len(ledger) = Len(gh[1].ledger) - 1

\* 1 + the greatest positive batch among the rows, 1 when there is none
ExpectedBatch(rows) ==
  LET positive == {b \in {r.batch : r \in Range(rows)} : b > 0}
  IN  IF positive = {} THEN 1
      ELSE 1 + CHOOSE b \in positive : \A c \in positive : c <= b

\* C7: every row an Up call inserts carries 1 + the greatest batch among the
\* rows read at the start of the call, 1 when no row has a positive batch;
\* the batch is at least 1.
C7_BatchNumbering ==
  \A t \in Active :
    th[t].op = "Up"
    => /\ \A r \in Range(txs[t].ins) :
            r.batch = ExpectedBatch(gh[t].ledger) /\ r.batch >= 1
       /\ (th[t].pc = "done" /\ th[t].err = Nil) =>
            \A r \in NewRows(t) :
              r.batch = ExpectedBatch(gh[t].ledger) /\ r.batch >= 1

\* an Up that committed batch 2 over a ledger holding the legacy row
\* (batch 0) and a row of batch 1
C7_Witness ==
  /\ Returned(1, "Up") /\ th[1].err = Nil
  /\ LegacyRow \in Range(gh[1].ledger)
  /\ \E r \in Range(gh[1].ledger) : r.batch = 1
  /\ \E r \in NewRows(1) : r.batch = 2

\* C8: the rows one successful Up call inserts all carry the same batch.
C8_OneBatchPerUp ==
  \A t \in Active :
    (Returned(t, "Up") /\ th[t].err = Nil)
    => \A r1, r2 \in NewRows(t) : r1.batch = r2.batch

\* a successful Up that inserted three rows
C8_Witness ==
  /\ Returned(1, "Up") /\ th[1].err = Nil
  /\ Cardinality(NewRows(1)) = 3

\* C9: after a successful Up every identifier registered at the call has a
\* row; the rows the call inserted are those of the registered identifiers
\* that had none, each with its migration's identifier and description; the
\* earlier rows are still there.
C9_UpAppliesUnapplied ==
  \A t \in Active :
    (Returned(t, "Up") /\ th[t].err = Nil)
    => /\ \A m \in Range(gh[t].migrations) : m.id \in IDsOf(ledger)
       /\ {[id |-> r.id, description |-> r.description] : r \in NewRows(t)}
            = {[id |-> m.id, description |-> m.description] : m \in UnappliedSet(t)}
       /\ Cardinality(NewRows(t)) = Cardinality(UnappliedSet(t))
       /\ Range(gh[t].ledger) \subseteq Range(ledger)

\* a successful Up that inserted two rows beside one already applied
C9_Witness ==
  /\ Returned(1, "Up") /\ th[1].err = Nil
  /\ Cardinality(NewRows(1)) = 2
  /\ \E m \in Range(gh[1].migrations) : m.id \in IDsOf(gh[1].ledger)

\* C10 as stated: Down on a ledger with no rows fails with
\* ErrNoMigrationsToRollback, opens no transaction, runs no reverse
\* statement or delete and leaves the ledger unchanged.
C10_AsStated ==
  \A t \in Active :
    (Returned(t, "Down") /\ gh[t].ledger = <<>>)
    => /\ ErrNoMigrationsToRollback \in th[t].err
       /\ ~Did(t, {"begin", "exec", "delete", "commit"})
       /\ ledger = gh[t].ledger

\* C10, amended: such a call, for every steps, opens no transaction, runs no
\* reverse statement or delete and leaves the ledger unchanged; it fails with
\* ErrNoMigrationsToRollback when the ledger bootstrap and read succeed, and
\* with ErrFailedToGetAppliedMigrations when they do not.
C10_DownOnEmptyLedger ==
  \A t \in Active :
    (Returned(t, "Down") /\ gh[t].ledger = <<>>)
    => /\ ~Did(t, {"begin", "exec", "delete", "commit"})
       /\ ledger = gh[t].ledger
       /\ ReadOK(t) => th[t].err = {ErrNoMigrationsToRollback}
       /\ ~ReadOK(t) =>
            /\ ErrFailedToGetAppliedMigrations \in th[t].err
            /\ ErrNoMigrationsToRollback \notin th[t].err

\* a Down(2) refused on an empty ledger that it read
C10_Witness ==
  /\ Returned(1, "Down") /\ gh[1].ledger = <<>> /\ ReadOK(1)
  /\ th[1].steps = 2
  /\ th[1].err = {ErrNoMigrationsToRollback}

\* the identifiers registered on the caller's Migrator when the call started
RegisteredIDs(t) == {m.id : m \in Range(gh[t].migrations)}
AnyOp == {"createTable", "createIndex", "select", "begin", "exec", "insert",
          "delete", "commit"}

\* C11: for a row Down selected whose identifier is not registered, the call
\* runs no reverse statement; being unregistered is no error: the call fails
\* only when a store operation fails, and when it succeeds the row has been
\* deleted.
C11_UnregisteredRowRollback ==
  \A t \in Active :
    th[t].op = "Down"
    => \A r \in {x \in Range(th[t].rollbackList) : x.id \notin RegisteredIDs(t)} :
         /\ \A p \in DOMAIN Trace(t) : Trace(t)[p].k = "exec" => Trace(t)[p].id # r.id
         /\ th[t].err # Nil => DidFail(t, AnyOp)
         /\ (th[t].pc = "done" /\ th[t].err = Nil) =>
              /\ r \notin Range(ledger)
              /\ \E p \in DOMAIN Trace(t) :
                   Trace(t)[p] = Op("delete", r.id, NoStmt, TRUE)

\* a successful Down over the unregistered legacy row and a registered row
\* whose reverse statement ran
C11_Witness ==
  /\ Returned(1, "Down") /\ th[1].err = Nil
  /\ LegacyRow \in Range(th[1].rollbackList)
  /\ LegacyRow \notin Range(ledger)
  /\ Len(Statements(Trace(1))) >= 1

\* the call holds the lock: it has acquired it and not yet returned
InCall(t) == th[t].pc \in {"begin", "loop", "commit", "ret"}

\* C12: on one Migrator at most one call is between acquiring and releasing
\* the lock; that call is the holder of mu, and only it has a transaction.
C12_MutualExclusion ==
  /\ \A r \in Instances :
       Cardinality({t \in Active : InstOf(t) = r /\ InCall(t)}) <= 1
  /\ \A t \in Threads :
       /\ InCall(t) => mu[InstOf(t)] = t
       /\ txs[t].open => InCall(t)
  /\ \A r \in Instances :
       mu[r] # NoThread => InCall(mu[r]) /\ InstOf(mu[r]) = r

\* one caller is inside a transaction while the other has not acquired the lock
C12_Witness ==
  /\ topo = "sharedInstance"
  /\ th[1].pc = "loop" /\ txs[1].open
  /\ th[2].pc = "idle"

\* the step is the successful Commit of a call of this kind
Commits(t, op) ==
  /\ th[t].op = op /\ th[t].pc = "commit"
  /\ th'[t].pc = "ret" /\ th'[t].err = Nil

\* C13: an identifier gains a ledger row only in the successful Commit of an
\* Up whose batch contains it, and loses its row only in the successful
\* Commit of a Down that selected it; no other step (Register, Status, a
\* failing Up or Down, a Rollback) changes which identifiers have a row.
C13_IdentifierStateMachine ==
  [][\A id \in IDsOf(ledger) \cup IDsOf(ledger') :
       /\ (id \notin IDsOf(ledger) /\ id \in IDsOf(ledger')) =>
            \E t \in Active :
              Commits(t, "Up") /\ id \in {m.id : m \in Range(th[t].newMigrations)}
       /\ (id \in IDsOf(ledger) /\ id \notin IDsOf(ledger')) =>
            \E t \in Active :
              Commits(t, "Down") /\ id \in IDsOf(th[t].rollbackList)]_vars

\* migration "1" was applied by an Up and its row removed by this Down
C13_Witness ==
  /\ Returned(1, "Down") /\ th[1].err = Nil
  /\ MigA.id \in IDsOf(gh[1].ledger)
  /\ MigA.id \notin IDsOf(ledger)
  /\ MigA.up[1] \in Range(schema)

Count(log, query) == Cardinality({k \in DOMAIN log : log[k] = query})
ForwardOf(m) == SelectSeq(m.up, LAMBDA query : ~SkipUp(query))
Committed(t) ==
  \E p \in DOMAIN Trace(t) : Trace(t)[p].k = "commit" /\ Trace(t)[p].ok

\* C14: in the committed store a migration's forward statements are there
\* all or none (each as often as the others), a migration with a ledger row
\* has all of them, and while an Up has not committed (in flight or failed)
\* the committed ledger and statements are those it started from.
C14_NoPartialState ==
  /\ \A m \in Migs :
       /\ \A a, b \in Range(ForwardOf(m)) : Count(schema, a) = Count(schema, b)
       /\ m.id \in IDsOf(ledger) =>
            \A a \in Range(ForwardOf(m)) : Count(schema, a) >= 1
  /\ \A t \in Active :
       (th[t].op = "Up" /\ ~Committed(t))
       => ledger = gh[t].ledger /\ schema = gh[t].schema

\* an Up in mid-batch: one migration's statements and row are in the
\* transaction, the next is being run, nothing of it is committed
C14_Witness ==
  /\ th[1].op = "Up" /\ th[1].pc = "loop" /\ th[1].i = 2 /\ th[1].q = 3
  /\ Len(txs[1].ins) = 1 /\ Len(txs[1].stmts) = 2
  /\ ledger = gh[1].ledger /\ schema = gh[1].schema

\* C15: a Status call that returns no error returns every committed ledger
\* row once (identifier, description, batch), in ascending (batch,
\* identifier) order.
C15_StatusReturnsLedger ==
  \A t \in Active :
    (th[t].op = "Status" /\ th[t].pc \in {"ret", "done"} /\ th[t].err = Nil)
    => /\ Range(th[t].out) = Range(ledger)
       /\ Len(th[t].out) = Len(ledger)
       /\ \A i, j \in DOMAIN th[t].out : i < j => Greater(th[t].out[j], th[t].out[i])

\* three rows returned, a row of an earlier batch before one with a smaller
\* identifier
C15_Witness ==
  /\ Returned(1, "Status") /\ th[1].err = Nil
  /\ Len(th[1].out) >= 3
  /\ \E i, j \in DOMAIN th[1].out : i < j /\ StrLess(th[1].out[j].id, th[1].out[i].id)

\* C16: as claimed, a Status call leaves the existence of the ledger table
\* and of its index, the ledger rows, the applied statements and the
\* registered list as they were when it was called.
C16_AsStated ==
  \A t \in Active :
    Returned(t, "Status")
    => /\ tableExists = gh[t].table
       /\ indexExists = gh[t].index
       /\ ledger = gh[t].ledger
       /\ schema = gh[t].schema
       /\ migrations[InstOf(t)] = gh[t].migrations

\* a Status call on a store without the ledger table has created the table
\* and the index
C16_StatusCreatesTable ==
  /\ Returned(1, "Status") /\ th[1].err = Nil
  /\ ~gh[1].table /\ ~gh[1].index
  /\ tableExists /\ indexExists

\* the error kinds the package defines
PackageKinds ==
  {ErrMigrationFailed, ErrFailedToCreateSchemaMigrationsTable,
   ErrFailedToCreateSchemaMigrationsIndex, ErrFailedToGetAppliedMigrations,
   ErrFailedToBeginTransaction, ErrNoMigrationsToRollback,
   ErrFailedToExecuteQuery}

\* C17: as claimed, every error Up or Down returns carries a kind of the
\* package, and carries the cause whenever a store operation of the call
\* failed (bootstrap, read, begin, statement, insert, delete, commit).
C17_AsStated ==
  \A t \in Active :
    ((Returned(t, "Up") \/ Returned(t, "Down")) /\ th[t].err # Nil)
    => /\ th[t].err \cap PackageKinds # {}
       /\ DidFail(t, AnyOp) => Cause \in th[t].err

\* an Up whose Commit failed has returned the store's error alone
C17_CommitFailureUnwrapped ==
  /\ Returned(1, "Up")
  /\ DidFail(1, {"commit"})
  /\ th[1].err = {Cause}

\* the rows a successful Up of caller t appends, in batch order
RowsOf(t) ==
  [k \in DOMAIN th[t].newMigrations |->
     LedgerRow(th[t].newMigrations[k], BatchFor(th[t].nextBatch, k))]
\* the identifiers both callers found unapplied
Contended ==
  {m.id : m \in Range(th[1].newMigrations)} \cap
  {m.id : m \in Range(th[2].newMigrations)}
\* both Up calls read the same ledger and found a common identifier unapplied
RacedOnInsert ==
  /\ Returned(1, "Up") /\ Returned(2, "Up")
  /\ ReadOK(1) /\ ReadOK(2)
  /\ gh[1].ledger = gh[2].ledger /\ gh[1].schema = gh[2].schema
  /\ Contended # {}
InsertsOf(t, id) ==
  {p \in DOMAIN Trace(t) : Trace(t)[p].k = "insert" /\ Trace(t)[p].id = id}

\* C18: two Migrators on one ledger: the ledger never holds two rows of one
\* identifier, and when both Up calls found an identifier X unapplied from
\* the same ledger, at most one commits; the committed store is the common
\* start plus the whole batch of that one (or nothing), so X's statements
\* are committed at most once; the other returns an error, has committed
\* nothing and has tried to insert X at most once.
C18_RaceOnInsert ==
  /\ \A i, j \in DOMAIN ledger : i # j => ledger[i].id # ledger[j].id
  /\ RacedOnInsert =>
       LET winners == {t \in Threads : th[t].err = Nil}
       IN  /\ Cardinality(winners) <= 1
           /\ \A t \in Threads \ winners : ~Committed(t)
           /\ \A t \in Threads : \A id \in Contended :
                Cardinality(InsertsOf(t, id)) <= 1
           /\ \A id \in Contended : \A m \in Migs :
                m.id = id => \A a \in Range(ForwardOf(m)) :
                  Count(schema, a) <= Count(gh[1].schema, a) + 1
           /\ IF winners = {}
              THEN ledger = gh[1].ledger /\ schema = gh[1].schema
              ELSE \A w \in winners :
                     /\ ledger = gh[1].ledger \o RowsOf(w)
                     /\ schema = gh[1].schema \o Forward(th[w].newMigrations)

\* caller 1 committed the row of migration "1"; caller 2, from the same
\* ledger, ran that migration's statement and failed at the insert of its row
C18_Witness ==
  /\ topo = "twoInstances" /\ RacedOnInsert
  /\ th[1].err = Nil /\ Committed(1)
  /\ MigA.id \in Contended
  /\ th[2].err # Nil
  /\ \E p \in DOMAIN Trace(2) :
       /\ Trace(2)[p] = Op("insert", MigA.id, NoStmt, FALSE)
       /\ \E b \in 1..(p - 1) : Trace(2)[b].k = "exec" /\ Trace(2)[b].ok

\* C19: Register appends its arguments in their order to the end of the
\* candidate list, whatever their identifiers, returns no error and does no
\* store operation: table, index, ledger and statements are unchanged and
\* no transaction is opened.
C19_RegisterAppends ==
  \A t \in Active :
    (th[t].op = "Register" /\ th[t].pc \in {"ret", "done"})
    => /\ migrations[InstOf(t)] = gh[t].migrations \o th[t].args
       /\ th[t].err = Nil
       /\ Trace(t) = <<>>
       /\ ~txs[t].open
       /\ tableExists = gh[t].table /\ indexExists = gh[t].index
       /\ ledger = gh[t].ledger /\ schema = gh[t].schema

\* two migrations registered after another, the first of them with an
\* identifier the list already held
C19_Witness ==
  /\ Returned(1, "Register")
  /\ Len(th[1].args) = 2
  /\ gh[1].migrations # <<>>
  /\ th[1].args[1].id \in RegisteredIDs(1)
  /\ th[1].args[2].id \notin RegisteredIDs(1)

\* two registered migrations share an identifier
HasDuplicate(t) ==
  \E a, b \in DOMAIN gh[t].migrations :
    a # b /\ gh[t].migrations[a].id = gh[t].migrations[b].id
\* ... and that identifier has no ledger row
HasUnappliedDuplicate(t) ==
  \E a, b \in DOMAIN gh[t].migrations :
    /\ a # b /\ gh[t].migrations[a].id = gh[t].migrations[b].id
    /\ gh[t].migrations[a].id \notin IDsOf(gh[t].ledger)

Blank(query) == \A k \in DOMAIN query : IsSpace(query[k])
CommentLine(query) ==
  \E k \in DOMAIN query :
    /\ k < Len(query) /\ query[k] = "-" /\ query[k + 1] = "-"
    /\ \A j \in 1..(k - 1) : IsSpace(query[j])
SentUp(m) == SelectSeq(m.up, LAMBDA query : ~Blank(query))
SentDown(m) == SelectSeq(m.down, LAMBDA query : ~Blank(query) /\ ~CommentLine(query))
RECURSIVE AllSentUp(_)
AllSentUp(ms) == IF ms = <<>> THEN <<>> ELSE SentUp(Head(ms)) \o AllSentUp(Tail(ms))
RECURSIVE AllSentDown(_, _)
AllSentDown(rows, map) ==
  IF rows = <<>> THEN <<>>
  ELSE (IF Head(rows).id \in DOMAIN map THEN SentDown(map[Head(rows).id]) ELSE <<>>)
       \o AllSentDown(Tail(rows), map)

\* C21: an Up that ran its whole batch sent exactly the forward statements
\* that are not blank, comments included; a Down that ran its whole list
\* sent exactly the reverse statements that are neither blank nor comments;
\* no statement that is skipped is ever sent, so none can fail: every error
\* of a call is that of an operation that failed, or the refusal of a Down
\* on an empty ledger.
C21_StatementFiltering ==
  \A t \in Active :
    /\ (th[t].op = "Up" /\ Did(t, {"commit"}))
       => Statements(Trace(t)) = AllSentUp(th[t].newMigrations)
    /\ (th[t].op = "Down" /\ Did(t, {"commit"}))
       => Statements(Trace(t)) = AllSentDown(th[t].rollbackList, th[t].migrationMap)
    /\ \A p \in DOMAIN Trace(t) :
         Trace(t)[p].k = "exec" =>
           /\ ~Blank(Trace(t)[p].s)
           /\ th[t].op = "Down" => ~CommentLine(Trace(t)[p].s)
    /\ (th[t].op \in {"Up", "Down"} /\ th[t].err # Nil)
       => DidFail(t, AnyOp) \/ th[t].err = {ErrNoMigrationsToRollback}

\* the Down of migration "10" ran its one statement and skipped its comment,
\* after an Up had sent the comment among its forward statements
C21_Witness ==
  /\ Returned(1, "Down") /\ th[1].err = Nil
  /\ MigB.id \in IDsOf(th[1].rollbackList)
  /\ Statements(Trace(1)) = <<MigB.down[2]>>
  /\ CommentLine(MigB.down[1])
  /\ MigB.up[3] \in Range(gh[1].schema) /\ CommentLine(MigB.up[3])
  /\ MigB.up[1] \notin Range(gh[1].schema)

\* C22 as claimed: an Up that commits a batch numbers it above the batch of
\* every earlier Up that committed one.
C22_AsStated ==
  \A t \in Active :
    (th[t].op = "Up" /\ Committed(t))
    => \A b \in gh[t].assigned : th[t].nextBatch > b

\* C22 amended: the batch number of an Up is above the batch of every row
\* the ledger holds when the call reads it; it is above an earlier Up's
\* number b exactly when the ledger then holds a row of batch b or more, and
\* is never more than one above the greatest number given so far.
C22_BatchAboveLedger ==
  \A t \in Active :
    (th[t].op = "Up" /\ th[t].newMigrations # <<>>)
    => /\ \A r \in Range(gh[t].ledger) : th[t].nextBatch > r.batch
       /\ \A b \in gh[t].assigned :
            (th[t].nextBatch > b) = (\E r \in Range(gh[t].ledger) : r.batch >= b)
       /\ \A b \in 1..(th[t].nextBatch - 1) : b \in gh[t].assigned

\* an Up committed a batch under a number an earlier Up had used, its rows
\* rolled back since
C22_Witness ==
  /\ Returned(1, "Up") /\ Committed(1)
  /\ th[1].nextBatch \in gh[1].assigned
  /\ gh[1].ledger = <<>>

Reverse(s) == [k \in DOMAIN s |-> s[Len(s) + 1 - k]]

\* C23: the rows of the ledger, taken in descending (batch, identifier)
\* order as Down takes them, are the rows in the reverse of the order in
\* which they were inserted.
C23_RollbackReversesApply ==
  buildRollbackList(ledger, 0) = Reverse(ledger)

\* two batches, the later one holding the smaller identifier
C23_Witness ==
  /\ Len(ledger) >= 2
  /\ \E i, j \in DOMAIN ledger :
       /\ i < j
       /\ StrLess(ledger[j].id, ledger[i].id)
       /\ ledger[i].batch >= 1 /\ ledger[j].batch > ledger[i].batch


\* the calls made on the builder that are of these operations
CallsOf(ops) == SelectSeq(builder.calls, LAMBDA call : call.op \in ops)

\* C24 as claimed: after k calls of paired operations both sequences have
\* length k, the forward statement at position i is that of the i-th call
\* and the reverse statement at position i that of the (k+1-i)-th; a RawUp
\* adds to the forward sequence only and a RawDown to the reverse sequence
\* only.
C24_AsStated ==
  LET calls == builder.calls
      k == Len(calls)
      m == builder.migration
  IN  /\ Len(m.upQueries) = Len(CallsOf(PairedOps \cup {"RawUp"}))
      /\ Len(m.downQueries) = Len(CallsOf(PairedOps \cup {"RawDown"}))
      /\ (\A i \in 1..k : calls[i].op \in PairedOps)
         => /\ Len(m.upQueries) = k
            /\ Len(m.downQueries) = k
            /\ \A i \in 1..k :
                 /\ calls[i].up = <<m.upQueries[i]>>
                 /\ calls[k + 1 - i].down = <<m.downQueries[i]>>

\* an AddColumn with a blank column definition has added its forward
\* statement and no reverse statement
C24_AddColumnPanicked ==
  /\ Len(builder.calls) = 2
  /\ builder.calls[2].op = "AddColumn" /\ ~builder.calls[2].returned
  /\ Len(builder.migration.upQueries) = 2
  /\ Len(builder.migration.downQueries) = 1

\* what C24 claims, for builders on which every call returned
C24_WhenEveryCallReturned ==
  (\A i \in DOMAIN builder.calls : builder.calls[i].returned) => C24_AsStated

\* C25 as claimed: the Migration that Build returned shows the identifier,
\* description and statements it showed when it was returned, whatever is
\* called on the builder afterwards; and Up, Down and Status leave the
\* registered Migrations as they were (they only reorder the list).
C25_AsStated ==
  /\ builder.built => Built = builder.atBuild
  /\ \A t \in Active :
       th[t].op \in {"Up", "Down", "Status"}
       => \A m \in Range(migrations[InstOf(t)]) \cup Range(gh[t].migrations) :
            Count(migrations[InstOf(t)], m) = Count(gh[t].migrations, m)

\* a call made on the builder after Build has changed the statements of the
\* Migration that Build returned
C25_BuiltThenChanged ==
  /\ builder.built
  /\ Len(builder.atBuild.up) = 1
  /\ Len(Built.up) = 2 /\ Len(Built.down) = 2
  /\ Built.id = builder.atBuild.id


BootstrapKinds ==
  {ErrFailedToCreateSchemaMigrationsTable, ErrFailedToCreateSchemaMigrationsIndex}
Failed(t, k) == \E p \in DOMAIN Trace(t) : Trace(t)[p].k = k /\ ~Trace(t)[p].ok
Succeeded(t, k) == \E p \in DOMAIN Trace(t) : Trace(t)[p].k = k /\ Trace(t)[p].ok

\* C26: a call whose CREATE TABLE failed carries the table kind with the
\* cause and not the index kind, and has not attempted the index; a call
\* whose CREATE INDEX failed, the table statement having succeeded, carries
\* the index kind with the cause and not the table kind; no error carries
\* both, and a call whose bootstrap succeeded carries neither.
C26_BootstrapErrorKinds ==
  \A t \in Active :
    th[t].op \in {"Up", "Down", "Status"}
    => /\ Failed(t, "createTable") =>
            /\ ErrFailedToCreateSchemaMigrationsTable \in th[t].err
            /\ ErrFailedToCreateSchemaMigrationsIndex \notin th[t].err
            /\ Cause \in th[t].err
            /\ ~Did(t, {"createIndex"})
            /\ tableExists = gh[t].table /\ indexExists = gh[t].index
       /\ Failed(t, "createIndex") =>
            /\ ErrFailedToCreateSchemaMigrationsIndex \in th[t].err
            /\ ErrFailedToCreateSchemaMigrationsTable \notin th[t].err
            /\ Cause \in th[t].err
            /\ Succeeded(t, "createTable")
       /\ ~BootstrapKinds \subseteq th[t].err
       /\ (~Failed(t, "createTable") /\ ~Failed(t, "createIndex"))
          => th[t].err \cap BootstrapKinds = {}

\* an Up on a fresh store created the table and failed at the index
C26_Witness ==
  /\ Returned(1, "Up")
  /\ ~gh[1].table /\ tableExists /\ ~indexExists
  /\ Failed(1, "createIndex")
  /\ ErrFailedToCreateSchemaMigrationsIndex \in th[1].err

\* C27: an Up or Down whose bootstrap or ledger read failed returns
\* ErrFailedToGetAppliedMigrations with the cause, has begun no transaction,
\* executed no statement, inserted and deleted no row, and the committed
\* ledger and statements are as they were.
C27_ReadFailure ==
  \A t \in Active :
    (th[t].op \in {"Up", "Down"}
       /\ DidFail(t, {"createTable", "createIndex", "select"}))
    => /\ ErrFailedToGetAppliedMigrations \in th[t].err
       /\ Cause \in th[t].err
       /\ ~Did(t, {"begin", "exec", "insert", "delete", "commit", "rollback"})
       /\ ~txs[t].open
       /\ ledger = gh[t].ledger /\ schema = gh[t].schema

\* a Down whose SELECT failed on a ledger that holds a row and whose
\* migration is registered
C27_Witness ==
  /\ Returned(1, "Down")
  /\ Failed(1, "select")
  /\ gh[1].ledger # <<>> /\ gh[1].migrations # <<>>
  /\ th[1].err = {ErrFailedToGetAppliedMigrations, Cause}

\* C28: in an Up, a failed forward statement is reported with
\* ErrFailedToExecuteQuery and ErrMigrationFailed, a failed ledger insert
\* with ErrMigrationFailed and never ErrFailedToExecuteQuery; each with the
\* cause.
C28_QueryAndInsertKinds ==
  \A t \in Active :
    th[t].op = "Up"
    => /\ Failed(t, "exec") =>
            th[t].err = {ErrFailedToExecuteQuery, ErrMigrationFailed, Cause}
       /\ Failed(t, "insert") =>
            /\ th[t].err = {ErrMigrationFailed, Cause}
            /\ ErrFailedToExecuteQuery \notin th[t].err

\* an insert failed after the migration's forward statement had run
C28_Witness ==
  /\ Returned(1, "Up")
  /\ Failed(1, "insert") /\ Succeeded(1, "exec")
  /\ ~Succeeded(1, "insert")
  /\ DistinctIDs(th[1].newMigrations)
  /\ th[1].err = {ErrMigrationFailed, Cause}

\* an operation of a call without its outcome
Attempt(o) == [k |-> o.k, id |-> o.id, s |-> o.s]
Attempts(t, kinds) ==
  LET ops == SelectSeq(Trace(t), LAMBDA o : o.k \in kinds)
  IN  [p \in DOMAIN ops |-> Attempt(ops[p])]
\* the operations an Up is to run for its batch: for each migration its
\* statements that are not blank, then its insert
RECURSIVE QueryOps(_, _)
QueryOps(id, queries) ==
  IF queries = <<>> THEN <<>>
  ELSE <<[k |-> "exec", id |-> id, s |-> Head(queries)]>> \o QueryOps(id, Tail(queries))
RECURSIVE BatchOps(_)
BatchOps(ms) ==
  IF ms = <<>> THEN <<>>
  ELSE QueryOps(Head(ms).id, SentUp(Head(ms)))
       \o <<[k |-> "insert", id |-> Head(ms).id, s |-> NoStmt]>>
       \o BatchOps(Tail(ms))

\* C29: the statements and inserts of an Up are, in order, a beginning of:
\* for each migration of the batch in ascending identifier order, its
\* non-blank forward statements as listed, then its insert (all of it when
\* the call reached Commit); bootstrap and read come before the begin of
\* the transaction, which comes before every statement and insert, and
\* Commit comes after them all.
C29_UpSequential ==
  \A t \in Active :
    th[t].op = "Up"
    => /\ IsPrefix(Attempts(t, {"exec", "insert"}), BatchOps(th[t].newMigrations))
       /\ Did(t, {"commit"}) =>
            Attempts(t, {"exec", "insert"}) = BatchOps(th[t].newMigrations)
       /\ \A i, j \in DOMAIN th[t].newMigrations :
            i < j => ~StrLess(th[t].newMigrations[j].id, th[t].newMigrations[i].id)
       /\ \A p, r \in DOMAIN Trace(t) :
            /\ (Trace(t)[p].k \in {"createTable", "createIndex", "select"}
                /\ Trace(t)[r].k \in {"begin", "exec", "insert", "commit"}) => p < r
            /\ (Trace(t)[p].k = "begin" /\ Trace(t)[r].k \in {"exec", "insert", "commit"})
               => p < r
            /\ (Trace(t)[p].k \in {"exec", "insert"} /\ Trace(t)[r].k = "commit") => p < r
       /\ Did(t, {"begin"}) => Succeeded(t, "select")

\* an Up committed two migrations: the statement of "1", its insert, the two
\* statements of "10", its insert
C29_Witness ==
  /\ Returned(1, "Up") /\ th[1].err = Nil
  /\ Len(th[1].newMigrations) = 2
  /\ Len(Attempts(1, {"exec", "insert"})) = 5
  /\ Attempts(1, {"exec", "insert"})[2].k = "insert"
  /\ Attempts(1, {"exec", "insert"})[5].k = "insert"

\* the operations a Down is to run: for each selected row the reverse
\* statements of its registered migration that are neither blank nor
\* comments, then its delete
RECURSIVE RollbackOps(_, _)
RollbackOps(rows, map) ==
  IF rows = <<>> THEN <<>>
  ELSE (IF Head(rows).id \in DOMAIN map
        THEN QueryOps(Head(rows).id, SentDown(map[Head(rows).id])) ELSE <<>>)
       \o <<[k |-> "delete", id |-> Head(rows).id, s |-> NoStmt]>>
       \o RollbackOps(Tail(rows), map)
\* the operations the call is to run in its transaction
Planned(t) ==
  IF th[t].op = "Up" THEN BatchOps(th[t].newMigrations)
  ELSE RollbackOps(th[t].rollbackList, th[t].migrationMap)

\* C30: in an Up or Down no operation follows one that failed, except the
\* Rollback of the transaction; the transaction is begun and committed at
\* most once and no statement, insert or delete is attempted more often
\* than the batch or rollback list holds it; a call in which an operation
\* failed returns an error, with the transaction rolled back and the
\* committed store as it was.
C30_NoRetryAbortOnFirstError ==
  \A t \in Active :
    th[t].op \in {"Up", "Down"}
    => /\ \A p, r \in DOMAIN Trace(t) :
            (~Trace(t)[p].ok /\ p < r) => Trace(t)[r].k = "rollback"
       /\ \A x \in Range(Attempts(t, {"exec", "insert", "delete"})) :
            Count(Attempts(t, {"exec", "insert", "delete"}), x) <= Count(Planned(t), x)
       /\ \A k \in {"createTable", "createIndex", "select", "begin", "commit", "rollback"} :
            Len(Attempts(t, {k})) <= 1
       /\ (th[t].pc = "done" /\ DidFail(t, AnyOp)) =>
            /\ th[t].err # Nil
            /\ Succeeded(t, "begin") => Trace(t)[Len(Trace(t))].k = "rollback"
            /\ ledger = gh[t].ledger /\ schema = gh[t].schema

\* the first migration of a batch of three was run and inserted, a
\* statement of the second failed, the third was never started
C30_Witness ==
  /\ Returned(1, "Up")
  /\ Len(th[1].newMigrations) = 3
  /\ Failed(1, "exec")
  /\ Len(Attempts(1, {"insert"})) = 1
  /\ Len(Attempts(1, {"exec"})) = 2
  /\ Trace(1)[Len(Trace(1))].k = "rollback"
  /\ Trace(1)[Len(Trace(1)) - 1].k = "exec"

\* C33: no step changes a ledger row in place: an identifier that has a row
\* before and after a step has the same row (identifier, description and
\* batch); and from the start of an Up to its return every row that was
\* there stays, in its place, registered or not.
C33_RowsNeverUpdated ==
  [][/\ \A r \in Range(ledger) : \A s \in Range(ledger') : s.id = r.id => s = r
     /\ \A t \in Active :
          (th[t].op = "Up" /\ th'[t].op = "Up") => IsPrefix(ledger, ledger')]_vars

\* an Up added a row to a ledger that held the unregistered legacy row and
\* the row of an earlier batch
C33_Witness ==
  /\ Returned(1, "Up") /\ th[1].err = Nil
  /\ LegacyRow \in Range(gh[1].ledger) /\ LegacyRow \in Range(ledger)
  /\ Len(gh[1].ledger) >= 2
  /\ Len(ledger) > Len(gh[1].ledger)
  /\ IsPrefix(gh[1].ledger, ledger)

BatchNumbers(rows) == {r.batch : r \in Range(rows)}

\* C34: when the ledger holds only rows this Migrator inserted (no legacy
\* row), the batch numbers present are exactly 1..k for some k >= 0.
C34_BatchesContiguous ==
  LegacyRow \notin Range(ledger)
  => \E k \in 0..Len(ledger) : BatchNumbers(ledger) = 1..k

\* a Down removed the whole of batch 2 from a ledger of batches 1 and 2
C34_Witness ==
  /\ Returned(1, "Down") /\ th[1].err = Nil
  /\ LegacyRow \notin Range(gh[1].ledger)
  /\ BatchNumbers(gh[1].ledger) = {1, 2}
  /\ BatchNumbers(ledger) = {1}

\* C37: a successful Up leaves a row for every registered identifier, also
\* one smaller than an applied identifier, and numbers its new rows above
\* every row that was there; an Up fails only when a store operation does;
\* a successful Down(1) removes the row inserted last.
C37_LateRegistration ==
  \A t \in Active :
    /\ (Returned(t, "Up") /\ th[t].err = Nil)
       => /\ \A m \in Range(gh[t].migrations) : m.id \in IDsOf(ledger)
          /\ \A r \in NewRows(t) : \A o \in Range(gh[t].ledger) : r.batch > o.batch
    /\ (Returned(t, "Up") /\ ~DidFail(t, AnyOp)) => th[t].err = Nil
    /\ (Returned(t, "Down") /\ th[t].err = Nil /\ th[t].steps = 1)
       => ledger = SubSeq(gh[t].ledger, 1, Len(gh[t].ledger) - 1)

\* "1", registered and applied after "2", was in batch 2 and the Down(1)
\* removed it, leaving "2"
C37_Witness ==
  /\ Returned(1, "Down") /\ th[1].err = Nil /\ th[1].steps = 1
  /\ Len(gh[1].ledger) = 2
  /\ gh[1].ledger[1].id = MigC.id /\ gh[1].ledger[1].batch = 1
  /\ gh[1].ledger[2].id = MigA.id /\ gh[1].ledger[2].batch = 2
  /\ IDsOf(ledger) = {MigC.id}
  /\ Range(gh[1].migrations) = {MigA, MigC}

\* C38: with no store failure, a Down(1) on a ledger that holds rows
\* succeeds and leaves one row fewer, none of them new; a Down on an empty
\* ledger fails with ErrNoMigrationsToRollback alone, without a transaction.
C38_RollbackProgress ==
  \A t \in Active :
    (Returned(t, "Down") /\ ~DidFail(t, AnyOp))
    => /\ gh[t].ledger = <<>> =>
            /\ th[t].err = {ErrNoMigrationsToRollback}
            /\ ~Did(t, {"begin"})
            /\ ledger = <<>>
       /\ (gh[t].ledger # <<>> /\ th[t].steps = 1) =>
            /\ th[t].err = Nil
            /\ Len(ledger) = Len(gh[t].ledger) - 1
            /\ Range(ledger) \subseteq Range(gh[t].ledger)

\* a Down refused on the ledger an earlier Down had emptied
C38_Witness ==
  /\ Returned(1, "Down") /\ gh[1].ledger = <<>>
  /\ th[1].err = {ErrNoMigrationsToRollback}
  /\ MigA.down[1] \in Range(gh[1].schema)

\* C35: a successful Down(n) made right after an Up that committed n >= 1
\* rows leaves the ledger holding the rows it held before that Up.
C35_RoundTrip ==
  \A t \in Active :
    (Returned(t, "Down") /\ th[t].err = Nil /\ gh[t].before # <<>>)
    => /\ Range(ledger) = Range(gh[t].before[1])
       /\ ledger = gh[t].before[1]

\* an Up added two rows to a ledger holding the legacy row, and the Down(2)
\* that followed removed the two
C35_Witness ==
  /\ Returned(1, "Down") /\ th[1].err = Nil /\ th[1].steps = 2
  /\ gh[1].before = <<(<<LegacyRow>>)>>
  /\ Len(gh[1].ledger) = 3
  /\ ledger = <<LegacyRow>>

\* C36: a call that has returned holds neither the lock nor a transaction,
\* and a transaction it began was committed or rolled back; every call that
\* has the lock comes to return, the lock then being free for the next call.
C36_CallsTerminate ==
  /\ [](\A t \in Threads :
         th[t].pc = "done" =>
           /\ mu[InstOf(t)] # t
           /\ ~txs[t].open
           /\ Succeeded(t, "begin") => (Succeeded(t, "commit") \/ Did(t, {"rollback"})))
  /\ \A t \in Threads :
       InCall(t) ~> (th[t].pc = "done" /\ mu[InstOf(t)] = NoThread /\ ~txs[t].open)

\* the first caller returned after its Commit failed and its transaction was
\* rolled back, and the second caller now holds the lock
C36_Witness ==
  /\ topo = "sharedInstance"
  /\ th[1].pc = "done" /\ Failed(1, "commit") /\ Did(1, {"rollback"})
  /\ ~txs[1].open
  /\ mu[InstOf(1)] = 2 /\ InCall(2)

\* the statements the call executed for one identifier, in order
StatementsFor(t, id) ==
  LET execs == SelectSeq(Trace(t), LAMBDA o : o.k = "exec" /\ o.id = id)
  IN  [k \in DOMAIN execs |-> execs[k].s]
\* the call attempted the delete of the row of this identifier
DeleteAttempted(t, id) ==
  \E p \in DOMAIN Trace(t) : Trace(t)[p].k = "delete" /\ Trace(t)[p].id = id
\* the reverse queries the builder's calls passed, the last call's first
ReverseOfCalls ==
  LET paired == SelectSeq(builder.calls, LAMBDA c : c.down # <<>>)
  IN  [k \in DOMAIN paired |-> paired[Len(paired) + 1 - k].down[1]]

\* C31: for each selected row whose migration is registered, the statements
\* a Down executes for it are the migration's reverse statements in their
\* stored order (a beginning of them while the call runs or when it fails),
\* all of them before the row's delete; for the Migration of a builder that
\* order is the reverse of the order of the builder's calls.
C31_ReverseInStoredOrder ==
  \A t \in Active :
    th[t].op = "Down"
    => \A r \in Range(th[t].rollbackList) :
         r.id \in DOMAIN th[t].migrationMap
         => LET m == th[t].migrationMap[r.id]
            IN  /\ IsPrefix(StatementsFor(t, r.id), SentDown(m))
                /\ DeleteAttempted(t, r.id) => StatementsFor(t, r.id) = SentDown(m)
                /\ \A p, q \in DOMAIN Trace(t) :
                     (/\ Trace(t)[p].k = "exec" /\ Trace(t)[p].id = r.id
                      /\ Trace(t)[q].k = "delete" /\ Trace(t)[q].id = r.id) => p < q
                /\ (builder.built /\ m = Built) => m.down = ReverseOfCalls

\* the Migration built by CreateTable, AddColumn, CreateIndex was rolled
\* back: drop index, drop column, drop table, then the delete of its row
C31_Witness ==
  /\ Returned(1, "Down") /\ th[1].err = Nil
  /\ [k \in DOMAIN builder.calls |-> builder.calls[k].op]
       = <<"CreateTable", "AddColumn", "CreateIndex">>
  /\ th[1].migrationMap[Built.id] = Built
  /\ Attempts(1, {"exec", "delete"})
       = <<[k |-> "exec", id |-> Built.id, s |-> DropIndexUp(<<"i">>)],
           [k |-> "exec", id |-> Built.id, s |-> AddColumnDown(<<"t">>, <<"c">>)],
           [k |-> "exec", id |-> Built.id, s |-> CreateTableDown(<<"t">>)],
           [k |-> "delete", id |-> Built.id, s |-> NoStmt]>>
  /\ ledger = <<>>

Irreversible == {"DropTable", "DropColumn", "ChangeColumn", "DropIndex", "DropForeignKey"}
\* the reverse entries the builder's irreversible operations generated
IrreversibleEntries ==
  {builder.calls[k].down[1] :
     k \in {j \in DOMAIN builder.calls : builder.calls[j].op \in Irreversible}}

\* C32: the reverse entry of an irreversible builder operation begins with
\* "--"; a Down never sends such an entry to the store; for a row whose
\* migration is the builder's, it sends the other reverse entries only, and
\* when no store operation fails it succeeds with the row deleted; an error
\* of a Down is that of a failed store operation or of the empty ledger.
C32_IrreversibleSkipped ==
  /\ \A query \in IrreversibleEntries : HasPrefix(query, CommentMarker)
  /\ \A t \in Active :
       th[t].op = "Down"
       => /\ \A p \in DOMAIN Trace(t) :
               Trace(t)[p].k = "exec" => Trace(t)[p].s \notin IrreversibleEntries
          /\ th[t].err # Nil => (DidFail(t, AnyOp) \/ th[t].err = {ErrNoMigrationsToRollback})
          /\ \A r \in Range(th[t].rollbackList) :
               (r.id \in DOMAIN th[t].migrationMap /\ th[t].migrationMap[r.id] = Built)
               => /\ IsPrefix(StatementsFor(t, r.id),
                              SelectSeq(Built.down, LAMBDA query : query \notin IrreversibleEntries))
                  /\ (th[t].pc = "done" /\ ~DidFail(t, AnyOp))
                     => /\ th[t].err = Nil
                        /\ r \notin Range(ledger)
                        /\ \E p \in DOMAIN Trace(t) :
                             Trace(t)[p] = Op("delete", r.id, NoStmt, TRUE)

\* the Migration built by DropTable, DropColumn, ChangeColumn was rolled
\* back: no statement was sent, its row was deleted, the call succeeded
C32_Witness ==
  /\ Returned(1, "Down") /\ th[1].err = Nil
  /\ Len(builder.calls) = 3
  /\ \A k \in DOMAIN builder.calls : builder.calls[k].op \in Irreversible
  /\ th[1].migrationMap[Built.id] = Built
  /\ Len(Built.down) = 3
  /\ Attempts(1, {"begin", "exec", "delete", "commit"})
       = <<[k |-> "begin", id |-> NoID, s |-> NoStmt],
           [k |-> "delete", id |-> Built.id, s |-> NoStmt],
           [k |-> "commit", id |-> NoID, s |-> NoStmt]>>
  /\ gh[1].ledger # <<>> /\ ledger = <<>>

====
